---------------------------- MODULE Spec2Model ----------------------------
(***************************************************************************)
(* Quote engines of raydium-library: the CLMM tick traversal               *)
(* (clmm_cli/src/clmm_utils.rs), the AMM quote math (amm_cli/src),         *)
(* the CP-Swap quote math (cpswap_cli/src) and the shared slippage and     *)
(* transfer-fee helpers (common/src/common_utils.rs).                      *)
(*                                                                         *)
(* Integers are scaled down: prices live on a small grid, a tick array     *)
(* holds TICK_ARRAY_SIZE ticks, and the machine word that matters for a    *)
(* truncating cast is U64Bits wide.                                        *)
(***************************************************************************)
EXTENDS Integers, Sequences, FiniteSets, TLC

VARIABLES
    args,          \* swap_compute's by-value arguments
    pool_state,    \* the CLMM pool account (with the tick layout it implies)
    tick_arrays,   \* the caller's VecDeque of tick arrays (start indices), passed by &mut
    pc,            \* position of the CLMM call: "call", "loop", "returned"
    state,         \* SwapState
    loc,           \* the other locals of swap_compute
    ret,           \* what the call returned
    hist,          \* history: the queue on entry, the steps executed, earlier results
    amm,           \* an AMM quote in progress
    cp,            \* a CP-Swap add-liquidity quote in progress
    liq,           \* a CLMM liquidity-change quote in progress
    rd,            \* the RPC reads of a CLMM / CP-Swap swap quote against a changing chain
    slip,          \* two amount_with_slippage calls on one amount
    chg            \* a CLMM swap-change quote in progress, from swap_compute's result on

vars == <<args, pool_state, tick_arrays, pc, state, loc, ret, hist, amm, cp, liq, rd, slip, chg>>

clmmVars == <<args, pool_state, tick_arrays, pc, state, loc, ret, hist>>

-----------------------------------------------------------------------------
(* Bounds of the model *)

MAX_TICK == 19
TICK_ARRAY_SIZE == 6
PriceScale == 2
FeeDenominator == 10
BigAmount == 2000
SmallAmount == 7
LimitGap == 5
MaxCalls == 2
NarrowLayout == 3

U64Bits == 8
FeeChangeEpoch == 4
MaxChain == 3
MaxAccountSteps == 3

(* Program constants *)

LoopCap == 10
NextArrays == 5
TEN_THOUSAND == 10000
MAX_FEE_BASIS_POINTS == 10000

MIN_TICK == -MAX_TICK

Abs(x) == IF x < 0 THEN -x ELSE x

\* the greater taken where the code takes the smaller
GreaterOf(a, b) == IF a <= b THEN b ELSE a

Min(a, b) == IF a <= b THEN a ELSE b

Max(a, b) == IF a >= b THEN a ELSE b

SetMax(S) == CHOOSE x \in S : \A y \in S : y <= x

SetMin(S) == CHOOSE x \in S : \A y \in S : x <= y

CeilDiv(a, b) == (a + b - 1) \div b

-----------------------------------------------------------------------------
(* tick_math: a strictly monotone price grid, PriceScale price units per tick *)

PriceOrigin == PriceScale * (MAX_TICK + 1)

get_sqrt_price_at_tick(t) == PriceOrigin + PriceScale * t

MIN_SQRT_PRICE_X64 == get_sqrt_price_at_tick(MIN_TICK)

MAX_SQRT_PRICE_X64 == get_sqrt_price_at_tick(MAX_TICK)

\* the greatest tick whose price is <= p
get_tick_at_sqrt_price(p) == (p - PriceOrigin) \div PriceScale

-----------------------------------------------------------------------------
(* The tick layout of a pool. layout = m: the ticks that are multiples of m *)
(* are initialized; each initialized tick below 0 opens one unit of         *)
(* liquidity and its mirror above 0 closes it. In the narrow layout only    *)
(* the ticks -NarrowLayout, 0 and NarrowLayout are initialized, so that the *)
(* pool has no initialized tick array beyond them.                          *)

Layouts == {1, 2, TICK_ARRAY_SIZE + 1, NarrowLayout}

Initialized(layout, t) ==
    /\ t \in MIN_TICK..MAX_TICK
    /\ t % layout = 0
    /\ (layout = NarrowLayout => Abs(t) <= NarrowLayout)

liquidity_net(layout, t) ==
    IF ~Initialized(layout, t) THEN 0 ELSE IF t < 0 THEN 1 ELSE IF t > 0 THEN -1 ELSE 0

\* liquidity in range when the pool's current tick is c
PoolLiquidity(layout, c) ==
    Cardinality({t \in MIN_TICK..MAX_TICK : Initialized(layout, t) /\ t < 0 /\ t <= c})
  - Cardinality({t \in MIN_TICK..MAX_TICK : Initialized(layout, t) /\ t > 0 /\ t <= c})

get_array_start_index(t) == (t \div TICK_ARRAY_SIZE) * TICK_ARRAY_SIZE

ArrayStarts == {get_array_start_index(t) : t \in MIN_TICK..MAX_TICK}

ArrayTicks(start) == start..(start + TICK_ARRAY_SIZE - 1)

\* the pool's tick-array bitmap: the arrays holding an initialized tick
ArrayInitialized(layout, start) == \E t \in ArrayTicks(start) : Initialized(layout, t)

\* Option<i32> as a set: {} is None, {s} is Some(s)
next_initialized_tick_array_start_index(layout, last_start, zero_for_one) ==
    LET last == get_array_start_index(last_start)
        cand == {s \in ArrayStarts : ArrayInitialized(layout, s)
                                     /\ (IF zero_for_one THEN s < last ELSE s > last)}
    IN  IF cand = {} THEN {}
        ELSE IF zero_for_one THEN {SetMax(cand)} ELSE {SetMin(cand)}

\* <<found, is_pool_current_tick_array, start index>>; found = FALSE is the Err the
\* callers unwrap
get_first_initialized_tick_array(layout, tick_current, zero_for_one) ==
    LET start == get_array_start_index(tick_current)
        nxt   == next_initialized_tick_array_start_index(layout, start, zero_for_one)
    IN  IF ArrayInitialized(layout, start) THEN <<TRUE, TRUE, start>>
        ELSE IF nxt = {} THEN <<FALSE, FALSE, start>>
        ELSE <<TRUE, FALSE, CHOOSE s \in nxt : TRUE>>

\* TickArrayState::next_initialized_tick: the tick itself counts when going down
next_initialized_tick(layout, start, tick, zero_for_one) ==
    IF get_array_start_index(tick) # start THEN {}
    ELSE LET cand == {t \in ArrayTicks(start) : Initialized(layout, t)
                        /\ (IF zero_for_one THEN t <= tick ELSE t > tick)}
         IN  IF cand = {} THEN {}
             ELSE IF zero_for_one THEN {SetMax(cand)} ELSE {SetMin(cand)}

\* TickArrayState::first_initialized_tick; {} is its Err
first_initialized_tick(layout, start, zero_for_one) ==
    LET cand == {t \in ArrayTicks(start) : Initialized(layout, t)}
    IN  IF cand = {} THEN {}
        ELSE IF zero_for_one THEN {SetMax(cand)} ELSE {SetMin(cand)}


-----------------------------------------------------------------------------
(* load_cur_and_next_five_tick_array: the start indices of the arrays it fetches *)

\* every further initialized array fetched, however many there are
RECURSIVE LoadNextUncapped(_, _, _, _)
LoadNextUncapped(layout, current, zero_for_one, max_array_size) ==
    LET nxt == next_initialized_tick_array_start_index(layout, current, zero_for_one)
    IN  IF nxt = {} THEN <<>>
        ELSE LET s == CHOOSE x \in nxt : TRUE
             IN  <<s>> \o LoadNextUncapped(layout, s, zero_for_one, max_array_size)

RECURSIVE LoadNext(_, _, _, _)
LoadNext(layout, current, zero_for_one, max_array_size) ==
    LET nxt == next_initialized_tick_array_start_index(layout, current, zero_for_one)
    IN  IF max_array_size = 0 \/ nxt = {} THEN <<>>
        ELSE LET s == CHOOSE x \in nxt : TRUE
             IN  <<s>> \o LoadNext(layout, s, zero_for_one, max_array_size - 1)

load_cur_and_next_five_tick_array(layout, tick_current, zero_for_one) ==
    LET f == get_first_initialized_tick_array(layout, tick_current, zero_for_one)
    IN  IF ~f[1] THEN <<>>
        ELSE <<f[3]>> \o LoadNext(layout, f[3], zero_for_one, NextArrays)

-----------------------------------------------------------------------------
(* swap_math::compute_swap_step on the price grid: moving the price by d   *)
(* with liquidity L takes L * d of the input token and gives L * d of the  *)
(* output token.                                                           *)

get_delta_amount(p, q, liquidity) == liquidity * Abs(p - q)

MoveBy(cur, d, zero_for_one) == IF zero_for_one THEN cur - d ELSE cur + d

compute_swap_step(cur, target, liquidity, amount_remaining, fee_rate, is_base_input, zero_for_one) ==
    LET less_fee == (amount_remaining * (FeeDenominator - fee_rate)) \div FeeDenominator
        in_range == get_delta_amount(cur, target, liquidity)
        next == IF is_base_input
                THEN IF less_fee >= in_range THEN target
                     ELSE MoveBy(cur, less_fee \div liquidity, zero_for_one)
                ELSE IF amount_remaining >= in_range THEN target
                     ELSE MoveBy(cur, CeilDiv(amount_remaining, liquidity), zero_for_one)
        amount_in == get_delta_amount(next, cur, liquidity)
        out_raw == get_delta_amount(next, cur, liquidity)
        amount_out == IF ~is_base_input /\ out_raw > amount_remaining
                      THEN amount_remaining ELSE out_raw
        fee_amount == IF is_base_input /\ next # target
                      THEN amount_remaining - amount_in
                      ELSE CeilDiv(amount_in * fee_rate, FeeDenominator - fee_rate)
    IN  [sqrt_price_next_x64 |-> next, amount_in |-> amount_in,
         amount_out |-> amount_out, fee_amount |-> fee_amount]

-----------------------------------------------------------------------------
(* get_out_put_amount_and_remaining_accounts / swap_compute *)

NoRet == [kind |-> "none", msg |-> "", amount_calculated |-> 0, vec |-> <<>>]

NoState == [amount_specified_remaining |-> 0, amount_calculated |-> 0,
            sqrt_price_x64 |-> 0, tick |-> 0, liquidity |-> 0]

NoLoc == [tick_array_current |-> 0, tick_match_current_tick_array |-> FALSE,
          tick_array_start_index_vec |-> <<>>, loop_count |-> 0,
          sqrt_price_limit_x64 |-> 0, current_vaild_tick_array_start_index |-> 0]

Err(msg) == [kind |-> "Err", msg |-> msg, amount_calculated |-> 0, vec |-> <<>>]

Panic(msg) == [kind |-> "panic", msg |-> msg, amount_calculated |-> 0, vec |-> <<>>]

\* the start index put at the front of the list
push_front(vec, start_tick_index) == <<start_tick_index>> \o vec

\* lines 508 and 555: VecDeque::push_back
push_back(vec, start_tick_index) == Append(vec, start_tick_index)

\* the zero amount let through
AmountIsZeroUnchecked(amount_specified) == FALSE

\* lines 466-468
AmountIsZero(amount_specified) == amount_specified = 0

\* lines 469-477
EffectiveLimit(limit, zero_for_one) ==
    IF limit = 0
    THEN IF zero_for_one THEN MIN_SQRT_PRICE_X64 + 1 ELSE MAX_SQRT_PRICE_X64 - 1
    ELSE limit

\* lines 478-492: "" when the limit is accepted
LimitError(limit, zero_for_one, current) ==
    IF zero_for_one
    THEN IF limit < MIN_SQRT_PRICE_X64
         THEN "sqrt_price_limit_x64 must greater than MIN_SQRT_PRICE_X64"
         ELSE IF limit >= current
         THEN "sqrt_price_limit_x64 must smaller than current"
         ELSE ""
    ELSE IF limit > MAX_SQRT_PRICE_X64
         THEN "sqrt_price_limit_x64 must smaller than MAX_SQRT_PRICE_X64"
         ELSE IF limit <= current
         THEN "sqrt_price_limit_x64 must greater than current"
         ELSE ""

\* lines 423-509: the call up to the loop
SwapComputeEnter ==
    /\ pc = "call"
    /\ LET zfo   == args.zero_for_one
           f     == get_first_initialized_tick_array(pool_state.layout,
                                                     pool_state.tick_current, zfo)
           limit == EffectiveLimit(args.sqrt_price_limit_x64, zfo)
           lerr  == LimitError(limit, zfo, pool_state.sqrt_price_x64)
           early == IF ~f[1] THEN Panic("get_first_initialized_tick_array")
                    ELSE IF AmountIsZero(args.amount_specified)
                    THEN Err("amountSpecified must not be 0")
                    ELSE IF lerr # "" THEN Err(lerr)
                    ELSE IF tick_arrays = <<>> THEN Panic("pop_front on an empty queue")
                    ELSE NoRet
       IN  IF early.kind # "none"
           THEN /\ pc' = "returned"
                /\ ret' = early
                /\ UNCHANGED <<tick_arrays, state, loc>>
           ELSE /\ tick_arrays' = Tail(tick_arrays)
                /\ IF Head(tick_arrays) # f[3]
                   THEN /\ pc' = "returned"
                        /\ ret' = Err("tick array start tick index does not match")
                        /\ UNCHANGED <<state, loc>>
                   ELSE /\ pc' = "loop"
                        /\ ret' = NoRet
                        /\ state' = [amount_specified_remaining |-> args.amount_specified,
                                     amount_calculated |-> 0,
                                     sqrt_price_x64 |-> pool_state.sqrt_price_x64,
                                     tick |-> pool_state.tick_current,
                                     liquidity |-> pool_state.liquidity]
                        /\ loc' = [tick_array_current |-> Head(tick_arrays),
                                   tick_match_current_tick_array |-> f[2],
                                   tick_array_start_index_vec |-> push_back(<<>>, Head(tick_arrays)),
                                   loop_count |-> 0,
                                   sqrt_price_limit_x64 |-> limit,
                                   current_vaild_tick_array_start_index |-> f[3]]
    /\ UNCHANGED <<args, pool_state, hist, amm, cp, liq, rd, slip, chg>>

\* lines 511-514: the while condition
LoopCondition ==
    /\ state.amount_specified_remaining # 0
    /\ state.sqrt_price_x64 # loc.sqrt_price_limit_x64
    /\ state.tick < MAX_TICK
    /\ state.tick > MIN_TICK

\* the loop count never looked at
LoopCountUnchecked == FALSE

\* lines 516-518
LoopCountExceeded == loc.loop_count > LoopCap

\* the loop left with `break` where the code returns the Err
SwapLoopCountLimitBreak ==
    /\ pc = "loop"
    /\ LoopCondition
    /\ LoopCountExceeded
    /\ pc' = "returned"
    /\ ret' = [kind |-> "Ok", msg |-> "", amount_calculated |-> state.amount_calculated,
               vec |-> loc.tick_array_start_index_vec]
    /\ UNCHANGED <<args, pool_state, tick_arrays, state, loc, hist, amm, cp, liq, rd, slip, chg>>

SwapLoopCountLimit ==
    /\ pc = "loop"
    /\ LoopCondition
    /\ LoopCountExceeded
    /\ pc' = "returned"
    /\ ret' = Err("loop_count limit")
    /\ UNCHANGED <<args, pool_state, tick_arrays, state, loc, hist, amm, cp, liq, rd, slip, chg>>

\* line 638
SwapComputeReturn ==
    /\ pc = "loop"
    /\ ~LoopCondition
    /\ pc' = "returned"
    /\ ret' = [kind |-> "Ok", msg |-> "", amount_calculated |-> state.amount_calculated,
               vec |-> loc.tick_array_start_index_vec]
    /\ UNCHANGED <<args, pool_state, tick_arrays, state, loc, hist, amm, cp, liq, rd, slip, chg>>


\* liquidity_math::add_delta; -1 is its Err
add_delta(liquidity, delta) == IF liquidity + delta < 0 THEN -1 ELSE liquidity + delta

\* lines 522-561: the tick the step goes to. kind "tick": found, "Err" / "panic":
\* the call ends there. queue is the caller's VecDeque afterwards.
NextTick ==
    LET zfo    == args.zero_for_one
        layout == pool_state.layout
        nit    == next_initialized_tick(layout, loc.tick_array_current, state.tick, zfo)
        first  == nit = {} /\ ~loc.tick_match_current_tick_array
        fit    == first_initialized_tick(layout, loc.tick_array_current, zfo)
        \* the shadowed start index: always the array the call started in
        nstart == next_initialized_tick_array_start_index(
                      layout, loc.current_vaild_tick_array_start_index, zfo)
        base   == [kind |-> "tick", msg |-> "", tick |-> 0, queue |-> tick_arrays,
                   tick_array_current |-> loc.tick_array_current,
                   vec |-> loc.tick_array_start_index_vec,
                   tick_match |-> (loc.tick_match_current_tick_array \/ first)]
    IN  IF nit # {} THEN [base EXCEPT !.tick = CHOOSE t \in nit : TRUE]
        ELSE IF first /\ fit = {}
        THEN [base EXCEPT !.kind = "panic", !.msg = "first_initialized_tick"]
        ELSE IF first THEN [base EXCEPT !.tick = CHOOSE t \in fit : TRUE]
        ELSE IF tick_arrays = <<>>
        THEN [base EXCEPT !.kind = "panic", !.msg = "pop_front on an empty queue"]
        ELSE IF nstart = {}
        THEN [base EXCEPT !.kind = "Err", !.queue = Tail(tick_arrays),
                          !.msg = "tick array start tick index out of range limit"]
        ELSE IF Head(tick_arrays) \notin nstart
        THEN [base EXCEPT !.kind = "Err", !.queue = Tail(tick_arrays),
                          !.msg = "tick array start tick index does not match"]
        ELSE LET nfit == first_initialized_tick(layout, Head(tick_arrays), zfo)
             IN  IF nfit = {}
                 THEN [base EXCEPT !.kind = "panic", !.queue = Tail(tick_arrays),
                                   !.msg = "first_initialized_tick"]
                 ELSE [base EXCEPT !.tick = CHOOSE t \in nfit : TRUE,
                                   !.queue = Tail(tick_arrays),
                                   !.tick_array_current = Head(tick_arrays),
                                   !.vec = push_back(loc.tick_array_start_index_vec,
                                                     Head(tick_arrays))]

\* lines 562-568
ClampTick(t) == IF t < MIN_TICK THEN MIN_TICK ELSE IF t > MAX_TICK THEN MAX_TICK ELSE t

\* the next tick's price whatever the limit
TargetPriceOfNextTick(sqrt_price_next_x64, limit, zero_for_one) == sqrt_price_next_x64

\* lines 572-578
TargetPrice(sqrt_price_next_x64, limit, zero_for_one) ==
    IF (zero_for_one /\ sqrt_price_next_x64 < limit)
       \/ (~zero_for_one /\ sqrt_price_next_x64 > limit)
    THEN limit ELSE sqrt_price_next_x64

\* lines 595-613: <<ok, amount_specified_remaining, amount_calculated>>
Account(st, swap_step, is_base_input) ==
    LET used   == IF is_base_input THEN swap_step.amount_in + swap_step.fee_amount
                  ELSE swap_step.amount_out
        gained == IF is_base_input THEN swap_step.amount_out
                  ELSE swap_step.amount_in + swap_step.fee_amount
    IN  <<st.amount_specified_remaining >= used,
          st.amount_specified_remaining - used,
          st.amount_calculated + gained>>

\* the tick set to tick_next in both directions and the net liquidity never negated
TickTransitionOneWay(st, price, start_price, tick_next, sqrt_price_next_x64, net, zero_for_one) ==
    IF price = sqrt_price_next_x64
    THEN LET l == add_delta(st.liquidity, net)
         IN  <<l >= 0, tick_next, l>>
    ELSE IF price # start_price
    THEN <<TRUE, get_tick_at_sqrt_price(price), st.liquidity>>
    ELSE <<TRUE, st.tick, st.liquidity>>

\* lines 615-634: <<ok, tick, liquidity>>
TickTransition(st, price, start_price, tick_next, sqrt_price_next_x64, net, zero_for_one) ==
    IF price = sqrt_price_next_x64
    THEN LET l == add_delta(st.liquidity, IF zero_for_one THEN -net ELSE net)
         IN  <<l >= 0, IF zero_for_one THEN tick_next - 1 ELSE tick_next, l>>
    ELSE IF price # start_price
    THEN <<TRUE, get_tick_at_sqrt_price(price), st.liquidity>>
    ELSE <<TRUE, st.tick, st.liquidity>>

\* lines 519-635: one iteration of the loop; the tick to go to is found once
SwapStep ==
    /\ pc = "loop"
    /\ LoopCondition
    /\ ~LoopCountExceeded
    /\ \E nt \in {NextTick} :
       LET zfo   == args.zero_for_one
           tick_next == ClampTick(nt.tick)
           sqrt_price_next_x64 == get_sqrt_price_at_tick(tick_next)
           target == TargetPrice(sqrt_price_next_x64, loc.sqrt_price_limit_x64, zfo)
           swap_step == compute_swap_step(state.sqrt_price_x64, target, state.liquidity,
                                          state.amount_specified_remaining,
                                          args.trade_fee_rate, args.is_base_input, zfo)
           acc   == Account(state, swap_step, args.is_base_input)
           tr    == TickTransition(state, swap_step.sqrt_price_next_x64,
                                   state.sqrt_price_x64, tick_next, sqrt_price_next_x64,
                                   liquidity_net(pool_state.layout, nt.tick), zfo)
       IN  /\ tick_arrays' = nt.queue
           /\ IF nt.kind # "tick"
              THEN /\ pc' = "returned"
                   /\ ret' = IF nt.kind = "Err" THEN Err(nt.msg) ELSE Panic(nt.msg)
                   /\ UNCHANGED <<state, loc, hist>>
              ELSE IF ~acc[1] \/ ~tr[1]
              THEN /\ pc' = "returned"
                   /\ ret' = Panic("checked arithmetic")
                   /\ UNCHANGED <<state, loc, hist>>
              ELSE /\ pc' = "loop"
                   /\ ret' = NoRet
                   /\ state' = [amount_specified_remaining |-> acc[2],
                                amount_calculated |-> acc[3],
                                sqrt_price_x64 |-> swap_step.sqrt_price_next_x64,
                                tick |-> tr[2],
                                liquidity |-> tr[3]]
                   /\ loc' = [loc EXCEPT !.tick_array_current = nt.tick_array_current,
                                         !.tick_match_current_tick_array = nt.tick_match,
                                         !.tick_array_start_index_vec = nt.vec,
                                         !.loop_count = loc.loop_count + 1]
                   /\ hist' = [hist EXCEPT !.steps = hist.steps + 1]
    /\ UNCHANGED <<args, pool_state, amm, cp, liq, rd, slip, chg>>

\* the caller quotes again with the same arguments and the queue it still holds
CallAgain ==
    /\ pc = "returned"
    /\ hist.calls < MaxCalls
    /\ ret.kind # "panic"
    /\ pc' = "call"
    /\ hist' = [entry_tick_arrays |-> tick_arrays, steps |-> 0,
                calls |-> hist.calls + 1, rets |-> Append(hist.rets, ret)]
    /\ ret' = NoRet
    /\ state' = NoState
    /\ loc' = NoLoc
    /\ UNCHANGED <<args, pool_state, tick_arrays, amm, cp, liq, rd, slip, chg>>

-----------------------------------------------------------------------------
(* Machine integers, scaled: a u64 is U64Bits wide, a u128 twice that *)

U64_MAX == 2 ^ U64Bits - 1

U128_MAX == 2 ^ (2 * U64Bits) - 1

Ok(v) == [kind |-> "Ok", v |-> v]

ErrV == [kind |-> "Err", v |-> 0]

PanicV == [kind |-> "panic", v |-> 0]

-----------------------------------------------------------------------------
(* common_utils.rs *)

\* the tolerance taken off where the code adds it
amount_with_slippage_narrowing(amount, slippage_bps, up_towards) ==
    IF slippage_bps > TEN_THOUSAND THEN PanicV
    ELSE Ok((amount * (TEN_THOUSAND - slippage_bps)) \div TEN_THOUSAND)

\* lines 28-46
amount_with_slippage(amount, slippage_bps, up_towards) ==
    IF ~up_towards /\ slippage_bps > TEN_THOUSAND THEN PanicV
    ELSE LET with_slippage ==
                 IF up_towards
                 THEN (amount * (slippage_bps + TEN_THOUSAND)) \div TEN_THOUSAND
                 ELSE (amount * (TEN_THOUSAND - slippage_bps)) \div TEN_THOUSAND
         IN  IF with_slippage > U64_MAX THEN ErrV ELSE Ok(with_slippage)

\* TransferFeeConfig::get_epoch_fee: the newer fee from its epoch on
get_epoch_fee(config, epoch) == IF epoch >= config.newer.epoch THEN config.newer ELSE config.older

\* TransferFee::calculate_fee
calculate_fee(fee, pre_fee_amount) ==
    IF fee.basis_points = 0 \/ pre_fee_amount = 0 THEN 0
    ELSE Min(CeilDiv(pre_fee_amount * fee.basis_points, MAX_FEE_BASIS_POINTS),
             fee.maximum_fee)

\* TransferFee::calculate_pre_fee_amount
calculate_pre_fee_amount(fee, post_fee_amount) ==
    IF fee.basis_points = 0 THEN post_fee_amount
    ELSE IF post_fee_amount = 0 THEN 0
    ELSE IF fee.basis_points = MAX_FEE_BASIS_POINTS THEN fee.maximum_fee + post_fee_amount
    ELSE LET raw == CeilDiv(post_fee_amount * MAX_FEE_BASIS_POINTS,
                            MAX_FEE_BASIS_POINTS - fee.basis_points)
         IN  IF raw - post_fee_amount >= fee.maximum_fee
             THEN post_fee_amount + fee.maximum_fee ELSE raw

calculate_inverse_fee(fee, post_fee_amount) ==
    calculate_fee(fee, calculate_pre_fee_amount(fee, post_fee_amount))

\* the proportional inverse in every case, the closed form left out
get_transfer_inverse_fee_proportional(mint, epoch, post_fee_amount) ==
    IF mint.has_fee THEN calculate_inverse_fee(get_epoch_fee(mint, epoch), post_fee_amount)
    ELSE 0

\* lines 133-151; a mint is [has_fee, older, newer]
get_transfer_inverse_fee(mint, epoch, post_fee_amount) ==
    IF mint.has_fee
    THEN LET transfer_fee == get_epoch_fee(mint, epoch)
         IN  IF transfer_fee.basis_points = MAX_FEE_BASIS_POINTS
             THEN transfer_fee.maximum_fee
             ELSE calculate_inverse_fee(get_epoch_fee(mint, epoch), post_fee_amount)
    ELSE 0

\* lines 154-167
get_transfer_fee(mint, epoch, pre_fee_amount) ==
    IF mint.has_fee THEN calculate_fee(get_epoch_fee(mint, epoch), pre_fee_amount) ELSE 0

\* lines 76-102: the fees of the pool's two mints, as <<fee_0, fee_1>>. The call
\* hands the post-fee amount where the epoch goes and the epoch where the amount goes.
get_pool_mints_inverse_fee(mint0, mint1, epoch, post_fee_amount_0, post_fee_amount_1) ==
    <<get_transfer_inverse_fee(mint0, post_fee_amount_0, epoch),
      get_transfer_inverse_fee(mint1, post_fee_amount_1, epoch)>>

-----------------------------------------------------------------------------
(* amm_math.rs *)

\* raydium_amm's CheckedCeilDiv: None (here -1) on a zero divisor
checked_ceil_div(a, b) == IF b = 0 THEN -1 ELSE CeilDiv(a, b)

\* the output rounded up where the curve rounds it down
swap_token_amount_base_in_ceil(amount_in, total_pc, total_coin, swap_direction) ==
    LET reserve_in  == IF swap_direction = "Coin2PC" THEN total_coin ELSE total_pc
        reserve_out == IF swap_direction = "Coin2PC" THEN total_pc ELSE total_coin
    IN  IF reserve_in + amount_in = 0 THEN -1
        ELSE CeilDiv(reserve_out * amount_in, reserve_in + amount_in)

\* Calculator::swap_token_amount_base_in; -1 when a checked step fails
swap_token_amount_base_in(amount_in, total_pc, total_coin, swap_direction) ==
    LET reserve_in  == IF swap_direction = "Coin2PC" THEN total_coin ELSE total_pc
        reserve_out == IF swap_direction = "Coin2PC" THEN total_pc ELSE total_coin
    IN  IF reserve_in + amount_in = 0 THEN -1
        ELSE (reserve_out * amount_in) \div (reserve_in + amount_in)

\* Calculator::swap_token_amount_base_out; -1 when a checked step fails
swap_token_amount_base_out(amount_out, total_pc, total_coin, swap_direction) ==
    LET reserve_in  == IF swap_direction = "Coin2PC" THEN total_coin ELSE total_pc
        reserve_out == IF swap_direction = "Coin2PC" THEN total_pc ELSE total_coin
    IN  IF amount_out >= reserve_out THEN -1
        ELSE checked_ceil_div(reserve_in * amount_out, reserve_out - amount_out)

\* the fee rounded down where the code rounds it up
swap_exact_amount_base_in_floor_fee(pc_vault_amount, coin_vault_amount, swap_fee_numerator, swap_fee_denominator, swap_direction, amount_specified) ==
    LET swap_fee == IF swap_fee_denominator = 0 THEN -1
                    ELSE (amount_specified * swap_fee_numerator) \div swap_fee_denominator
        swap_in_after_deduct_fee == amount_specified - swap_fee
        swap_amount_out == swap_token_amount_base_in(swap_in_after_deduct_fee,
                               pc_vault_amount, coin_vault_amount, swap_direction)
    IN  IF swap_fee < 0 \/ swap_in_after_deduct_fee < 0 THEN PanicV
        ELSE IF swap_amount_out < 0 \/ swap_amount_out > U64_MAX THEN PanicV
        ELSE Ok(swap_amount_out)

\* lines 102-117
swap_exact_amount_base_in(pc_vault_amount, coin_vault_amount, swap_fee_numerator, swap_fee_denominator, swap_direction, amount_specified) ==
    LET swap_fee == checked_ceil_div(amount_specified * swap_fee_numerator,
                                     swap_fee_denominator)
        swap_in_after_deduct_fee == amount_specified - swap_fee
        swap_amount_out == swap_token_amount_base_in(swap_in_after_deduct_fee,
                               pc_vault_amount, coin_vault_amount, swap_direction)
    IN  IF swap_fee < 0 \/ swap_in_after_deduct_fee < 0 THEN PanicV
        ELSE IF swap_amount_out < 0 \/ swap_amount_out > U64_MAX THEN PanicV
        ELSE Ok(swap_amount_out)

\* lines 118-139
swap_exact_amount_base_out(pc_vault_amount, coin_vault_amount, swap_fee_numerator, swap_fee_denominator, swap_direction, amount_specified) ==
    LET swap_in_before_add_fee == swap_token_amount_base_out(amount_specified,
                                      pc_vault_amount, coin_vault_amount, swap_direction)
        swap_in_after_add_fee ==
            checked_ceil_div(swap_in_before_add_fee * swap_fee_denominator,
                             swap_fee_denominator - swap_fee_numerator)
    IN  IF swap_in_before_add_fee < 0 \/ swap_fee_denominator < swap_fee_numerator
        THEN PanicV
        ELSE IF swap_in_after_add_fee < 0 \/ swap_in_after_add_fee > U64_MAX THEN PanicV
        ELSE Ok(swap_in_after_add_fee)

\* lines 93-142
swap_exact_amount(pc_vault_amount, coin_vault_amount, swap_fee_numerator, swap_fee_denominator, swap_direction, amount_specified, swap_base_in) ==
    IF swap_base_in
    THEN swap_exact_amount_base_in(pc_vault_amount, coin_vault_amount, swap_fee_numerator,
                                   swap_fee_denominator, swap_direction, amount_specified)
    ELSE swap_exact_amount_base_out(pc_vault_amount, coin_vault_amount, swap_fee_numerator,
                                    swap_fee_denominator, swap_direction, amount_specified)

\* lines 219-246
swap_with_slippage(pc_vault_amount, coin_vault_amount, swap_fee_numerator, swap_fee_denominator, swap_direction, amount_specified, swap_base_in, slippage_bps) ==
    LET other_amount_threshold ==
            swap_exact_amount(pc_vault_amount, coin_vault_amount, swap_fee_numerator,
                              swap_fee_denominator, swap_direction, amount_specified,
                              swap_base_in)
    IN  IF other_amount_threshold.kind # "Ok" THEN other_amount_threshold
        ELSE amount_with_slippage(other_amount_threshold.v, slippage_bps, ~swap_base_in)

\* the quotient rounded down where the code asks for the ceiling
exchange_token_floor(input_amount, input_reserve, other_reserve) ==
    IF input_reserve = 0 THEN -1
    ELSE (input_amount * other_reserve) \div input_reserve

\* InvariantToken::exchange_coin_to_pc / exchange_pc_to_coin, rounding up; -1: None
exchange_token(input_amount, input_reserve, other_reserve) ==
    IF input_reserve = 0 THEN -1
    ELSE CeilDiv(input_amount * other_reserve, input_reserve)

\* lines 37-64
deposit_exact_amount(pc_vault_amount_without_pnl, coin_vault_amount_without_pnl, input_amount, base_side) ==
    LET another_amount ==
            IF base_side = 0
            THEN exchange_token(input_amount, coin_vault_amount_without_pnl,
                                pc_vault_amount_without_pnl)
            ELSE exchange_token(input_amount, pc_vault_amount_without_pnl,
                                coin_vault_amount_without_pnl)
    IN  IF another_amount < 0 \/ another_amount > U64_MAX THEN PanicV
        ELSE Ok(another_amount)

\* lines 144-190: Ok carries <<max_coin, max_pc, min of the other side or -1 for None>>
deposit_amount_with_slippage(pc_vault_amount_without_pnl, coin_vault_amount_without_pnl, amount_specified, another_min_limit, base_side, slippage_bps) ==
    LET another_amount == deposit_exact_amount(pc_vault_amount_without_pnl,
                              coin_vault_amount_without_pnl, amount_specified, base_side)
        max_other == amount_with_slippage(another_amount.v, slippage_bps, TRUE)
        min_other == amount_with_slippage(another_amount.v, slippage_bps, FALSE)
    IN  IF another_amount.kind # "Ok" THEN another_amount
        ELSE IF max_other.kind # "Ok" THEN max_other
        ELSE IF another_min_limit /\ min_other.kind # "Ok" THEN min_other
        ELSE Ok(IF base_side = 0
                THEN <<amount_specified, max_other.v,
                       IF another_min_limit THEN min_other.v ELSE -1>>
                ELSE <<max_other.v, amount_specified,
                       IF another_min_limit THEN min_other.v ELSE -1>>)

\* the share rounded up where the code asks for the floor
exchange_pool_to_token_ceil(token_input, token_total, token_total_amount) ==
    IF token_total = 0 THEN -1
    ELSE CeilDiv(token_total_amount * token_input, token_total)

\* InvariantPool::exchange_pool_to_token, rounding down; -1: None
exchange_pool_to_token(token_input, token_total, token_total_amount) ==
    IF token_total = 0 THEN -1
    ELSE (token_total_amount * token_input) \div token_total

\* lines 66-91: Ok carries <<pc_amount, coin_amount>>
withdraw_exact_amounts(pc_vault_amount_without_pnl, coin_vault_amount_without_pnl, pool_lp_amount, withdraw_lp_amount) ==
    LET pc_amount == exchange_pool_to_token(withdraw_lp_amount, pool_lp_amount,
                                            pc_vault_amount_without_pnl)
        coin_amount == exchange_pool_to_token(withdraw_lp_amount, pool_lp_amount,
                                              coin_vault_amount_without_pnl)
    IN  IF pc_amount < 0 \/ coin_amount < 0 \/ pc_amount > U64_MAX \/ coin_amount > U64_MAX
        THEN PanicV
        ELSE Ok(<<pc_amount, coin_amount>>)

\* lines 192-217: Ok carries <<min_coin, min_pc>>, -1 for None; slippage_bps_opt is a set
withdraw_amounts_with_slippage(pc_vault_amount_without_pnl, coin_vault_amount_without_pnl, pool_lp_amount, withdraw_lp_amount, slippage_bps_opt) ==
    IF slippage_bps_opt = {} THEN Ok(<<-1, -1>>)
    ELSE LET slippage_bps == CHOOSE x \in slippage_bps_opt : TRUE
             exact == withdraw_exact_amounts(pc_vault_amount_without_pnl,
                          coin_vault_amount_without_pnl, pool_lp_amount, withdraw_lp_amount)
             receive_min_pc_amount == amount_with_slippage(exact.v[1], slippage_bps, FALSE)
             receive_min_coin_amount == amount_with_slippage(exact.v[2], slippage_bps, FALSE)
         IN  IF exact.kind # "Ok" THEN exact
             ELSE IF receive_min_pc_amount.kind # "Ok" THEN receive_min_pc_amount
             ELSE IF receive_min_coin_amount.kind # "Ok" THEN receive_min_coin_amount
             ELSE Ok(<<receive_min_coin_amount.v, receive_min_pc_amount.v>>)

\* lines 5-35: the vault amounts less the profit calc_take_pnl finds accrued;
\* <<ok, pc, coin>>
pool_vault_deduct_pnl(pc_vault_amount_with_pnl, coin_vault_amount_with_pnl, pnl_pc, pnl_coin) ==
    <<pnl_pc <= pc_vault_amount_with_pnl /\ pnl_coin <= coin_vault_amount_with_pnl,
      pc_vault_amount_with_pnl - pnl_pc,
      coin_vault_amount_with_pnl - pnl_coin>>

\* Calculator::calc_total_without_take_pnl_no_orderbook: the vault balances less the
\* profit already set aside; <<ok, pc, coin>>
calc_total_without_take_pnl_no_orderbook(pc_amount, coin_amount, need_take_pnl_pc, need_take_pnl_coin) ==
    <<need_take_pnl_pc <= pc_amount /\ need_take_pnl_coin <= coin_amount,
      pc_amount - need_take_pnl_pc,
      coin_amount - need_take_pnl_coin>>

-----------------------------------------------------------------------------
(* amm_utils.rs: calculate_deposit_info, calculate_withdraw_info, calculate_swap_info *)

NoPair == <<0, 0>>

NoResult == [kind |-> "none", v |-> 0]

\* lines 23-60, 107-144, 196-232: one multi-account read, then the totals without
\* the profit already set aside
AmmLoadAccounts ==
    /\ amm.pc = "start"
    /\ LET t == calc_total_without_take_pnl_no_orderbook(amm.vault_pc, amm.vault_coin,
                    amm.need_take_pnl_pc, amm.need_take_pnl_coin)
       IN  IF t[1]
           THEN amm' = [amm EXCEPT !.pc = "loaded", !.total = <<t[2], t[3]>>]
           ELSE amm' = [amm EXCEPT !.pc = "done", !.result = PanicV]
    /\ UNCHANGED <<clmmVars, cp, liq, rd, slip, chg>>

\* lines 61-68, 145-152: only the deposit and the withdraw quote take this step
AmmDeductPnl ==
    /\ amm.pc = "loaded"
    /\ amm.op \in {"deposit", "withdraw"}
    /\ LET d == pool_vault_deduct_pnl(amm.total[1], amm.total[2], amm.pnl_pc, amm.pnl_coin)
       IN  IF d[1]
           THEN amm' = [amm EXCEPT !.pc = "deducted", !.deducted = TRUE,
                                   !.reserves = <<d[2], d[3]>>]
           ELSE amm' = [amm EXCEPT !.pc = "done", !.result = PanicV]
    /\ UNCHANGED <<clmmVars, cp, liq, rd, slip, chg>>

\* lines 70-79
AmmDepositQuote ==
    /\ amm.pc = "deducted"
    /\ amm.op = "deposit"
    /\ amm' = [amm EXCEPT !.pc = "done",
                 !.result = LET r == deposit_amount_with_slippage(amm.reserves[1],
                                         amm.reserves[2], amm.amount_specified,
                                         amm.another_min_limit, amm.base_side,
                                         amm.slippage_bps)
                            IN  IF r.kind = "Ok" THEN r ELSE PanicV]
    /\ UNCHANGED <<clmmVars, cp, liq, rd, slip, chg>>

\* lines 154-162
AmmWithdrawQuote ==
    /\ amm.pc = "deducted"
    /\ amm.op = "withdraw"
    /\ amm' = [amm EXCEPT !.pc = "done",
                 !.result = LET r == withdraw_amounts_with_slippage(amm.reserves[1],
                                         amm.reserves[2], amm.lp_amount,
                                         amm.amount_specified, amm.slippage_opt)
                            IN  IF r.kind = "Ok" THEN r ELSE PanicV]
    /\ UNCHANGED <<clmmVars, cp, liq, rd, slip, chg>>

\* lines 234-259: the swap quote goes from the totals straight to the math
AmmSwapQuote ==
    /\ amm.pc = "loaded"
    /\ amm.op = "swap"
    /\ IF amm.user_mint \notin {"coin", "pc"}
       THEN amm' = [amm EXCEPT !.pc = "done", !.result = PanicV]
       ELSE amm' = [amm EXCEPT !.pc = "done", !.reserves = amm.total,
                      !.swap_direction = IF amm.user_mint = "coin" THEN "Coin2PC"
                                         ELSE "PC2Coin",
                      !.result = swap_with_slippage(amm.total[1], amm.total[2],
                                     amm.swap_fee_numerator, amm.swap_fee_denominator,
                                     IF amm.user_mint = "coin" THEN "Coin2PC" ELSE "PC2Coin",
                                     amm.amount_specified, amm.base_in, amm.slippage_bps)]
    /\ UNCHANGED <<clmmVars, cp, liq, rd, slip, chg>>

AmmVaults == {<<100, 100>>, <<200, 50>>, <<7, U64_MAX>>}

AmmFees == {<<0, 1>>, <<25, TEN_THOUSAND>>, <<1, 4>>}

AmmAmounts == {0, 1, 10, 100}

AmmSlippages == {0, 50, TEN_THOUSAND + 1}

AmmBase ==
    [pc |-> "start", op |-> "swap", amount_specified |-> 0, slippage_bps |-> 0,
     slippage_opt |-> {}, base_in |-> TRUE, base_side |-> 0, another_min_limit |-> FALSE,
     user_mint |-> "coin", swap_direction |-> "none", vault_pc |-> 0, vault_coin |-> 0,
     need_take_pnl_pc |-> 0, need_take_pnl_coin |-> 0, pnl_pc |-> 0, pnl_coin |-> 0,
     lp_amount |-> 0, swap_fee_numerator |-> 0, swap_fee_denominator |-> 1,
     total |-> NoPair, reserves |-> NoPair, deducted |-> FALSE, result |-> NoResult]

AmmPools ==
    {[AmmBase EXCEPT !.vault_pc = v[1], !.vault_coin = v[2],
                     !.need_take_pnl_pc = n, !.need_take_pnl_coin = n,
                     !.pnl_pc = p[1], !.pnl_coin = p[2]] :
        v \in AmmVaults, n \in {0, 1}, p \in {<<0, 0>>, <<3, 2>>}}

AmmSwapCalls ==
    {[a EXCEPT !.op = "swap", !.amount_specified = x, !.slippage_bps = sl, !.base_in = b,
               !.user_mint = m, !.swap_fee_numerator = f[1],
               !.swap_fee_denominator = f[2]] :
        a \in AmmPools, x \in AmmAmounts, sl \in AmmSlippages, b \in BOOLEAN,
        m \in {"coin", "pc", "other"}, f \in AmmFees}

AmmDepositCalls ==
    {[a EXCEPT !.op = "deposit", !.amount_specified = x, !.slippage_bps = sl,
               !.base_side = bs, !.another_min_limit = ml] :
        a \in AmmPools, x \in AmmAmounts, sl \in AmmSlippages, bs \in {0, 1},
        ml \in BOOLEAN}

AmmWithdrawCalls ==
    {[a EXCEPT !.op = "withdraw", !.amount_specified = x, !.slippage_opt = so,
               !.lp_amount = lp] :
        a \in AmmPools, x \in AmmAmounts, so \in {{}} \cup {{sl} : sl \in AmmSlippages},
        lp \in {0, 50, 100}}

IdlePool == [layout |-> 1, tick_current |-> 0, sqrt_price_x64 |-> 0, liquidity |-> 0]

IdleArgs == [zero_for_one |-> FALSE, is_base_input |-> FALSE, trade_fee_rate |-> 0,
             amount_specified |-> 0, sqrt_price_limit_x64 |-> 0]

IdleHist == [entry_tick_arrays |-> <<>>, steps |-> 0, calls |-> 0, rets |-> <<>>]

ClmmIdle ==
    /\ args = IdleArgs
    /\ pool_state = IdlePool
    /\ tick_arrays = <<>>
    /\ pc = "idle"
    /\ state = NoState
    /\ loc = NoLoc
    /\ ret = NoRet
    /\ hist = IdleHist

-----------------------------------------------------------------------------
(* Mints: without the transfer-fee extension, with a fee that changes at epoch *)
(* FeeChangeEpoch, and with the maximal basis points                         *)

FeeOf(epoch, maximum_fee, basis_points) ==
    [epoch |-> epoch, maximum_fee |-> maximum_fee, basis_points |-> basis_points]

NoFeeMint == [has_fee |-> FALSE, older |-> FeeOf(0, 0, 0), newer |-> FeeOf(0, 0, 0)]

FeeMint == [has_fee |-> TRUE, older |-> FeeOf(0, 50, 1000),
            newer |-> FeeOf(FeeChangeEpoch, 100, 5000)]

MaxBpsMint == [has_fee |-> TRUE, older |-> FeeOf(0, 50, 1000),
               newer |-> FeeOf(FeeChangeEpoch, 5, MAX_FEE_BASIS_POINTS)]

Mints == {NoFeeMint, FeeMint, MaxBpsMint}

Epochs == {FeeChangeEpoch - 2, FeeChangeEpoch + 1}

-----------------------------------------------------------------------------
(* cpswap_utils.rs *)

\* lines 9-44: -1 when a checked u128 step fails
specified_tokens_to_lp_tokens(amount_specified, lp_token_supply, swap_token_0_amount, swap_token_1_amount, base_token0) ==
    LET specified_reserve == IF base_token0 THEN swap_token_0_amount
                             ELSE swap_token_1_amount
        other_reserve == IF base_token0 THEN swap_token_1_amount ELSE swap_token_0_amount
        another_amount == (amount_specified * other_reserve) \div specified_reserve
        amount0 == IF base_token0 THEN amount_specified ELSE another_amount
        amount1 == IF base_token0 THEN another_amount ELSE amount_specified
    IN  IF specified_reserve = 0 \/ amount_specified * other_reserve > U128_MAX THEN -1
        ELSE IF amount0 * lp_token_supply > U128_MAX \/ swap_token_0_amount = 0 THEN -1
        ELSE IF amount1 * lp_token_supply > U128_MAX \/ swap_token_1_amount = 0 THEN -1
        ELSE Min((amount0 * lp_token_supply) \div swap_token_0_amount,
                 (amount1 * lp_token_supply) \div swap_token_1_amount)

\* CurveCalculator::lp_tokens_to_trading_tokens, one side; -1 is None
lp_tokens_to_trading_token(lp_token_amount, lp_token_supply, swap_token_amount, ceiling) ==
    IF lp_token_supply = 0 \/ lp_token_amount * swap_token_amount > U128_MAX THEN -1
    ELSE LET q == (lp_token_amount * swap_token_amount) \div lp_token_supply
             r == (lp_token_amount * swap_token_amount) % lp_token_supply
         IN  IF ceiling /\ r > 0 /\ q > 0 THEN q + 1 ELSE q

\* `x as u64`
as_u64(x) == x % (U64_MAX + 1)

\* lines 83-146 of add_liquidity_calculate, from the totals on
add_liquidity_quote(c) ==
    LET base_mint  == IF c.base_token0 THEN c.mint0 ELSE c.mint1
        other_mint == IF c.base_token0 THEN c.mint1 ELSE c.mint0
        transfer_fee == get_transfer_fee(base_mint, c.epoch, c.amount_specified)
        specified_without_fee == c.amount_specified - transfer_fee
        liquidity == specified_tokens_to_lp_tokens(specified_without_fee, c.lp_supply,
                         c.total[1], c.total[2], c.base_token0)
        token_0_amount == lp_tokens_to_trading_token(liquidity, c.lp_supply, c.total[1], TRUE)
        token_1_amount == lp_tokens_to_trading_token(liquidity, c.lp_supply, c.total[2], TRUE)
        other == IF c.base_token0 THEN token_1_amount ELSE token_0_amount
        another_amount == other + get_transfer_inverse_fee(other_mint, c.epoch, other)
        liquidity_slippage == amount_with_slippage(as_u64(liquidity), c.slippage_bps, FALSE)
        failed == [kind |-> "panic", liquidity |-> liquidity, v |-> <<0, 0, 0>>]
    IN  IF specified_without_fee < 0 \/ liquidity < 0 THEN [failed EXCEPT !.liquidity = 0]
        ELSE IF token_0_amount < 0 \/ token_1_amount < 0 THEN failed
        ELSE IF other > U64_MAX \/ another_amount > U64_MAX THEN failed
        ELSE IF liquidity_slippage.kind # "Ok"
        THEN [failed EXCEPT !.kind = liquidity_slippage.kind]
        ELSE [kind |-> "Ok", liquidity |-> liquidity,
              v |-> IF c.base_token0
                    THEN <<liquidity_slippage.v, c.amount_specified, another_amount>>
                    ELSE <<liquidity_slippage.v, another_amount, c.amount_specified>>]

\* lines 53-81: the pool, the vaults and mints, the epoch; then the vault amounts
\* without the protocol and fund fees
CpLoadAccounts ==
    /\ cp.pc = "start"
    /\ IF cp.fees[1] > cp.vault[1] \/ cp.fees[2] > cp.vault[2]
       THEN cp' = [cp EXCEPT !.pc = "done", !.result.kind = "panic"]
       ELSE cp' = [cp EXCEPT !.pc = "loaded",
                     !.total = <<cp.vault[1] - cp.fees[1], cp.vault[2] - cp.fees[2]>>]
    /\ UNCHANGED <<clmmVars, amm, liq, rd, slip, chg>>

\* lines 83-146
CpAddLiquidityQuote ==
    /\ cp.pc = "loaded"
    /\ cp.op = "add"
    /\ cp' = [cp EXCEPT !.pc = "done", !.result = add_liquidity_quote(cp)]
    /\ UNCHANGED <<clmmVars, amm, liq, rd, slip, chg>>

CpCalls ==
    [pc : {"start"}, op : {"add"}, amount_specified : {0, 4, 200},
     slippage_bps : {0, 50}, base_token0 : BOOLEAN,
     lp_supply : {0, 100, 2 ^ (U64Bits - 1), U64_MAX},
     vault : {<<1, 1>>, <<100, 50>>, <<0, 10>>},
     fees : {<<0, 0>>, <<1, 0>>},
     mint0 : {NoFeeMint, FeeMint}, mint1 : {NoFeeMint, MaxBpsMint},
     epoch : Epochs, total : {NoPair},
     result : {[kind |-> "none", liquidity |-> 0, v |-> <<0, 0, 0>>]}]

\* CurveCalculator::swap_base_input: the destination amount for the source less
\* the trade fee; -1 is None
cp_swap_base_input(source_amount, swap_source_amount, swap_destination_amount, trade_fee_rate) ==
    LET trade_fee == CeilDiv(source_amount * trade_fee_rate, FeeDenominator)
        source_amount_less_fees == source_amount - trade_fee
    IN  IF swap_source_amount + source_amount_less_fees = 0 THEN -1
        ELSE (source_amount_less_fees * swap_destination_amount)
                 \div (swap_source_amount + source_amount_less_fees)

\* CurveCalculator::swap_base_output: the source amount, trade fee included, for
\* the destination amount; -1 is None
cp_swap_base_output(destination_amount, swap_source_amount, swap_destination_amount, trade_fee_rate) ==
    IF destination_amount >= swap_destination_amount THEN -1
    ELSE CeilDiv(CeilDiv(swap_source_amount * destination_amount,
                         swap_destination_amount - destination_amount) * FeeDenominator,
                 FeeDenominator - trade_fee_rate)

NoSwapQuote == [kind |-> "none", curve_amount |-> 0, swapped |-> 0, transfer_amount |-> 0, v |-> 0]

\* the mint the swap pays out in
swap_output_mint(c) == IF c.user_mint = "token0" THEN c.mint1 ELSE c.mint0

\* lines 292-326, 372-385: the mint of the user's input token
swap_input_mint(c) == IF c.user_mint = "token0" THEN c.mint0 ELSE c.mint1

\* lines 292-396 of swap_calculate, from the totals on
swap_quote(c) ==
    LET zero_for_one == c.user_mint = "token0"
        total_input_token_amount  == IF zero_for_one THEN c.total[1] ELSE c.total[2]
        total_output_token_amount == IF zero_for_one THEN c.total[2] ELSE c.total[1]
        input_mint  == swap_input_mint(c)
        output_mint == IF zero_for_one THEN c.mint1 ELSE c.mint0
        transfer_fee == IF c.base_in
                        THEN get_transfer_fee(input_mint, c.epoch, c.amount_specified)
                        ELSE get_transfer_inverse_fee(output_mint, c.epoch, c.amount_specified)
        failed == [NoSwapQuote EXCEPT !.kind = "panic"]
    IN  IF c.user_mint \notin {"token0", "token1"} THEN failed
        ELSE IF c.base_in
        THEN LET actual_amount_in == Max(c.amount_specified - transfer_fee, 0)
                 amount_out == cp_swap_base_input(actual_amount_in, total_input_token_amount,
                                   total_output_token_amount, c.trade_fee_rate)
                 amount_received == amount_out
                                      - get_transfer_fee(output_mint, c.epoch, amount_out)
                 minimum_amount_out == amount_with_slippage(amount_received,
                                                            c.slippage_bps, FALSE)
             IN  IF amount_out < 0 \/ amount_out > U64_MAX \/ amount_received < 0
                 THEN [failed EXCEPT !.curve_amount = actual_amount_in]
                 ELSE [kind |-> minimum_amount_out.kind, curve_amount |-> actual_amount_in,
                       swapped |-> amount_out, transfer_amount |-> amount_received,
                       v |-> minimum_amount_out.v]
        ELSE LET actual_amount_out == c.amount_specified + transfer_fee
                 source_amount_swapped ==
                     cp_swap_base_output(actual_amount_out, total_input_token_amount,
                                         total_output_token_amount, c.trade_fee_rate)
                 input_transfer_amount ==
                     source_amount_swapped
                       + get_transfer_inverse_fee(input_mint, c.epoch, source_amount_swapped)
                 max_amount_in == amount_with_slippage(input_transfer_amount,
                                                       c.slippage_bps, TRUE)
             IN  IF actual_amount_out > U64_MAX \/ source_amount_swapped < 0
                 THEN failed
                 ELSE IF source_amount_swapped > U64_MAX \/ input_transfer_amount > U64_MAX
                 THEN [failed EXCEPT !.curve_amount = actual_amount_out]
                 ELSE [kind |-> max_amount_in.kind, curve_amount |-> actual_amount_out,
                       swapped |-> source_amount_swapped,
                       transfer_amount |-> input_transfer_amount, v |-> max_amount_in.v]

\* lines 281-410
CpSwapQuote ==
    /\ cp.pc = "loaded"
    /\ cp.op = "swap"
    /\ cp' = [cp EXCEPT !.pc = "done", !.result = swap_quote(cp)]
    /\ UNCHANGED <<clmmVars, amm, liq, rd, slip, chg>>

CpSwapCalls ==
    [pc : {"start"}, op : {"swap"}, amount_specified : {0, 4, 50},
     slippage_bps : {0, 50}, base_in : BOOLEAN, user_mint : {"token0", "token1", "other"},
     trade_fee_rate : {0, 1},
     vault : {<<1, 1>>, <<100, 50>>, <<0, 10>>},
     fees : {<<0, 0>>, <<1, 0>>},
     mint0 : {NoFeeMint, FeeMint}, mint1 : {NoFeeMint, MaxBpsMint},
     epoch : Epochs, total : {NoPair}, result : {NoSwapQuote}]

-----------------------------------------------------------------------------
(* clmm_utils.rs: calculate_liquidity_change, from the signed amounts on *)

\* lines 142-144
LiqSlippage ==
    /\ liq.pc = "start"
    /\ LET a0 == amount_with_slippage(liq.amount_0, liq.slippage_bps, TRUE)
           a1 == amount_with_slippage(liq.amount_1, liq.slippage_bps, TRUE)
       IN  IF a0.kind # "Ok" \/ a1.kind # "Ok"
           THEN liq' = [liq EXCEPT !.pc = "done", !.kind = "Err"]
           ELSE liq' = [liq EXCEPT !.pc = "slipped",
                          !.amount_0_with_slippage = a0.v,
                          !.amount_1_with_slippage = a1.v]
    /\ UNCHANGED <<clmmVars, amm, cp, rd, slip, chg>>

\* lines 145-162
LiqMaxAmounts ==
    /\ liq.pc = "slipped"
    /\ LET transfer_fee == get_pool_mints_inverse_fee(liq.mint0, liq.mint1, liq.epoch,
                               liq.amount_0_with_slippage, liq.amount_1_with_slippage)
           amount_0_max == liq.amount_0_with_slippage + transfer_fee[1]
           amount_1_max == liq.amount_1_with_slippage + transfer_fee[2]
       IN  IF amount_0_max > U64_MAX \/ amount_1_max > U64_MAX
           THEN liq' = [liq EXCEPT !.pc = "done", !.kind = "panic"]
           ELSE liq' = [liq EXCEPT !.pc = "done", !.kind = "Ok",
                          !.amount_0_max = amount_0_max, !.amount_1_max = amount_1_max]
    /\ UNCHANGED <<clmmVars, amm, cp, rd, slip, chg>>

LiqCalls ==
    [pc : {"start"}, kind : {"none"}, amount_0 : {0, 3, 10, 100}, amount_1 : {0, 3, 100},
     slippage_bps : {0, 50, TEN_THOUSAND}, mint0 : Mints, mint1 : {NoFeeMint, FeeMint},
     epoch : Epochs, amount_0_with_slippage : {0}, amount_1_with_slippage : {0},
     amount_0_max : {0}, amount_1_max : {0}]

-----------------------------------------------------------------------------
(* clmm_utils.rs: calculate_swap_change around get_out_put_amount_and_remaining_accounts *)

NoChange == [kind |-> "none", v |-> 0]

\* lines 244-277: the direction from the user's input token, then the amount less
\* the input mint's transfer fee for exact input
ChgDirection ==
    /\ chg.pc = "start"
    /\ IF chg.user_mint \notin {"token0", "token1"}
       THEN chg' = [chg EXCEPT !.pc = "done", !.result = [NoChange EXCEPT !.kind = "panic"]]
       ELSE LET input_mint == IF chg.user_mint = "token0" THEN chg.mint0 ELSE chg.mint1
                transfer_fee == IF chg.base_in
                                THEN get_transfer_fee(input_mint, chg.epoch, chg.amount)
                                ELSE 0
            IN  chg' = [chg EXCEPT !.pc = "direction",
                                   !.zero_for_one = chg.user_mint = "token0",
                                   !.amount_specified = chg.amount - transfer_fee]
    /\ UNCHANGED <<clmmVars, amm, cp, liq, rd, slip>>

\* what the traversal can hand back for a non-zero amount
ChgComputed == {0, 3, 100, U64_MAX - 1, U64_MAX}

\* lines 297-309: the traversal's result, unwrapped; its Err aborts the quote
ChgSwapCompute ==
    /\ chg.pc = "direction"
    /\ \/ /\ chg.amount_specified # 0
          /\ \E a \in ChgComputed : chg' = [chg EXCEPT !.pc = "computed", !.computed = a]
       \/ chg' = [chg EXCEPT !.pc = "done", !.result = [NoChange EXCEPT !.kind = "panic"]]
    /\ UNCHANGED <<clmmVars, amm, cp, liq, rd, slip>>

\* lines 327-342: the threshold; the unchecked += either aborts or wraps on overflow
ChgThreshold ==
    /\ chg.pc = "computed"
    /\ LET input_mint == IF chg.zero_for_one THEN chg.mint0 ELSE chg.mint1
           slipped == amount_with_slippage(chg.computed, chg.slippage_bps, ~chg.base_in)
           transfer_fee == get_transfer_inverse_fee(input_mint, chg.epoch, slipped.v)
       IN  IF slipped.kind # "Ok"
           THEN chg' = [chg EXCEPT !.pc = "done", !.result = [NoChange EXCEPT !.kind = slipped.kind]]
           ELSE IF chg.base_in
           THEN chg' = [chg EXCEPT !.pc = "done", !.result = [kind |-> "Ok", v |-> slipped.v]]
           ELSE IF slipped.v + transfer_fee > U64_MAX
           THEN \E r \in {[NoChange EXCEPT !.kind = "panic"],
                           [kind |-> "Ok", v |-> as_u64(slipped.v + transfer_fee)]} :
                    chg' = [chg EXCEPT !.pc = "done", !.result = r]
           ELSE chg' = [chg EXCEPT !.pc = "done",
                          !.result = [kind |-> "Ok", v |-> slipped.v + transfer_fee]]
    /\ UNCHANGED <<clmmVars, amm, cp, liq, rd, slip>>

ChgCalls ==
    [pc : {"start"}, user_mint : {"token0", "token1", "other"}, base_in : BOOLEAN,
     amount : {0, 10, 100}, slippage_bps : {0, 50, TEN_THOUSAND \div 2},
     mint0 : {NoFeeMint, FeeMint}, mint1 : {NoFeeMint, MaxBpsMint}, epoch : Epochs,
     zero_for_one : {FALSE}, amount_specified : {0}, computed : {0}, result : {NoChange}]

-----------------------------------------------------------------------------
(* The RPC reads of a swap or liquidity quote. Each read returns the chain as *)
(* it is when the read is served; rd.chain counts the chain's updates.        *)

\* clmm_utils.rs lines 203, 215, 216, 411; cpswap_utils.rs lines 53, 64, 76;
\* 155, 166, 178; 241, 255, 256
Reads(fn) ==
    IF fn = "calculate_swap_change"
    THEN <<"pool_state", "accounts", "epoch", "tick_arrays">>
    ELSE IF fn = "swap_calculate" THEN <<"pool_state", "accounts", "epoch">>
    ELSE <<"pool_state", "accounts", "epoch">>

QuoteFunctions == {"calculate_swap_change", "swap_calculate", "add_liquidity_calculate",
                   "remove_liquidity_calculate"}

\* the next blocking RPC read of the quote
RdRead ==
    /\ rd.pc = "reading"
    /\ Len(rd.seen) < Len(Reads(rd.fn))
    /\ rd' = [rd EXCEPT !.seen = Append(rd.seen, rd.chain)]
    /\ UNCHANGED <<clmmVars, amm, cp, liq, slip, chg>>

\* a transaction lands on chain between two reads
ChainUpdate ==
    /\ rd.pc = "reading"
    /\ rd.chain < MaxChain
    /\ rd' = [rd EXCEPT !.chain = rd.chain + 1]
    /\ UNCHANGED <<clmmVars, amm, cp, liq, slip, chg>>

\* the quote is computed from what the reads returned
RdQuote ==
    /\ rd.pc = "reading"
    /\ Len(rd.seen) = Len(Reads(rd.fn))
    /\ rd' = [rd EXCEPT !.pc = "done"]
    /\ UNCHANGED <<clmmVars, amm, cp, liq, slip, chg>>

-----------------------------------------------------------------------------
(* The CLMM swap quote: every pool, direction, amount, limit and queue of the bounds *)

PoolTicks == {-TICK_ARRAY_SIZE - 1, -1, 0, TICK_ARRAY_SIZE - 1, MAX_TICK - 1}

Pools ==
    {[layout |-> m, tick_current |-> t,
      sqrt_price_x64 |-> get_sqrt_price_at_tick(t) + o,
      liquidity |-> PoolLiquidity(m, t)] :
        m \in Layouts, t \in PoolTicks, o \in {0, 1}}

Prefixes(q) == {SubSeq(q, 1, n) : n \in 0..Len(q)}

IdleAmm == [pc |-> "idle"]

IdleCp == [pc |-> "idle"]

IdleLiq == [pc |-> "idle"]

IdleRd == [pc |-> "idle"]

IdleSlip == [pc |-> "idle"]

IdleChg == [pc |-> "idle"]

Init ==
    /\ pool_state \in Pools
    /\ args \in [zero_for_one : BOOLEAN, is_base_input : BOOLEAN,
                 trade_fee_rate : {0, 1},
                 amount_specified : {0, SmallAmount, BigAmount},
                 sqrt_price_limit_x64 :
                     {0, MIN_SQRT_PRICE_X64, MAX_SQRT_PRICE_X64}
                     \cup {pool_state.sqrt_price_x64 + d : d \in {-LimitGap, 0, LimitGap}}]
    /\ tick_arrays \in Prefixes(load_cur_and_next_five_tick_array(
                          pool_state.layout, pool_state.tick_current, args.zero_for_one))
    /\ pc = "call"
    /\ state = NoState
    /\ loc = NoLoc
    /\ ret = NoRet
    /\ hist = [entry_tick_arrays |-> tick_arrays, steps |-> 0, calls |-> 1, rets |-> <<>>]
    /\ amm = IdleAmm
    /\ cp = IdleCp
    /\ liq = IdleLiq
    /\ rd = IdleRd
    /\ slip = IdleSlip
    /\ chg = IdleChg

Next ==
    \/ SwapComputeEnter
    \/ SwapStep
    \/ SwapLoopCountLimit
    \/ SwapComputeReturn
    \/ CallAgain

Spec == Init /\ [][Next]_vars

\* One call of swap_compute, for the termination of the call: every pool,
\* direction, amount, limit and queue of Init, without the trade fee.
InitTermination ==
    /\ Init
    /\ args.trade_fee_rate = 0

NextTermination ==
    \/ SwapComputeEnter
    \/ SwapStep
    \/ SwapLoopCountLimit
    \/ SwapComputeReturn

\* swap_compute is sequential code: a call that can take its next step takes it
SpecTermination == InitTermination /\ [][NextTermination]_vars /\ WF_vars(NextTermination)

-----------------------------------------------------------------------------
(* The amount accounting of swap_compute's loop on machine words: the steps *)
(* are any results compute_swap_step may hand back for the amount remaining *)

\* what compute_swap_step may return: for exact input the amount taken and its fee
\* fit the amount remaining, for exact output the amount given does and the fee is
\* charged on top of the amount taken
StepAmounts == {0, 1, 3, 2 ^ (U64Bits - 1), U64_MAX - 5, U64_MAX}

StepResults(amount_remaining, fee_rate, is_base_input) ==
    {r \in [amount_in : StepAmounts, amount_out : StepAmounts, fee_amount : 0..U64_MAX] :
        IF is_base_input
        THEN /\ r.amount_in + r.fee_amount <= amount_remaining
             /\ r.fee_amount \in {0, CeilDiv(r.amount_in * fee_rate, FeeDenominator - fee_rate),
                                  amount_remaining - r.amount_in}
        ELSE /\ r.amount_out <= amount_remaining
             /\ r.fee_amount = CeilDiv(r.amount_in * fee_rate, FeeDenominator - fee_rate)}

\* lines 595-613 on u64: `step.amount_in + step.fee_amount` is a plain addition,
\* which aborts on overflow in a build with overflow checks and wraps in one
\* without; checked_sub and checked_add are unwrapped.
\* <<ok, amount_specified_remaining, amount_calculated>>
AccountU64(st, swap_step, is_base_input, overflow_checks) ==
    LET sum == swap_step.amount_in + swap_step.fee_amount
        in_and_fee == as_u64(sum)
        used   == IF is_base_input THEN in_and_fee ELSE swap_step.amount_out
        gained == IF is_base_input THEN swap_step.amount_out ELSE in_and_fee
    IN  <<~(overflow_checks /\ sum > U64_MAX)
            /\ st.amount_specified_remaining >= used
            /\ st.amount_calculated + gained <= U64_MAX,
          st.amount_specified_remaining - used,
          st.amount_calculated + gained>>

\* lines 590-613 of one iteration; hist keeps the sums of what the steps reported
AccountStep ==
    /\ pc = "account"
    /\ state.amount_specified_remaining # 0
    /\ hist.steps < MaxAccountSteps
    /\ \E swap_step \in StepResults(state.amount_specified_remaining, args.trade_fee_rate,
                                     args.is_base_input) :
          LET acc == AccountU64(state, swap_step, args.is_base_input, args.overflow_checks)
          IN  IF ~acc[1]
              THEN /\ pc' = "returned"
                   /\ ret' = Panic("checked arithmetic")
                   /\ UNCHANGED <<state, hist>>
              ELSE /\ state' = [state EXCEPT !.amount_specified_remaining = acc[2],
                                             !.amount_calculated = acc[3]]
                   /\ hist' = [hist EXCEPT
                                 !.steps = hist.steps + 1,
                                 !.amount_in = hist.amount_in + swap_step.amount_in,
                                 !.amount_out = hist.amount_out + swap_step.amount_out,
                                 !.fee_amount = hist.fee_amount + swap_step.fee_amount]
                   /\ UNCHANGED <<pc, ret>>
    /\ UNCHANGED <<args, pool_state, tick_arrays, loc, amm, cp, liq, rd, slip, chg>>

\* lines 495-501: the swap state at the start of the loop
InitAccounting ==
    /\ args \in [zero_for_one : BOOLEAN, is_base_input : BOOLEAN, trade_fee_rate : {0, 1},
                 amount_specified : {SmallAmount, U64_MAX}, sqrt_price_limit_x64 : {0},
                 overflow_checks : BOOLEAN]
    /\ pool_state = IdlePool
    /\ tick_arrays = <<>>
    /\ pc = "account"
    /\ state = [NoState EXCEPT !.amount_specified_remaining = args.amount_specified]
    /\ loc = NoLoc
    /\ ret = NoRet
    /\ hist = [steps |-> 0, amount_in |-> 0, amount_out |-> 0, fee_amount |-> 0]
    /\ amm = IdleAmm
    /\ cp = IdleCp
    /\ liq = IdleLiq
    /\ rd = IdleRd
    /\ slip = IdleSlip
    /\ chg = IdleChg

NextAccounting == AccountStep

SpecAccounting == InitAccounting /\ [][NextAccounting]_vars

-----------------------------------------------------------------------------
(* The AMM quotes *)

InitAmm ==
    /\ ClmmIdle
    /\ amm \in AmmSwapCalls \cup AmmDepositCalls \cup AmmWithdrawCalls
    /\ cp = IdleCp
    /\ liq = IdleLiq
    /\ rd = IdleRd
    /\ slip = IdleSlip
    /\ chg = IdleChg

NextAmm ==
    \/ AmmLoadAccounts
    \/ AmmDeductPnl
    \/ AmmDepositQuote
    \/ AmmWithdrawQuote
    \/ AmmSwapQuote

SpecAmm == InitAmm /\ [][NextAmm]_vars

-----------------------------------------------------------------------------
(* The CP-Swap add-liquidity quote *)

InitCp ==
    /\ ClmmIdle
    /\ amm = IdleAmm
    /\ cp \in CpCalls \cup CpSwapCalls
    /\ liq = IdleLiq
    /\ rd = IdleRd
    /\ slip = IdleSlip
    /\ chg = IdleChg

NextCp ==
    \/ CpLoadAccounts
    \/ CpAddLiquidityQuote
    \/ CpSwapQuote

SpecCp == InitCp /\ [][NextCp]_vars

-----------------------------------------------------------------------------
(* The CLMM liquidity-change quote *)

InitLiq ==
    /\ ClmmIdle
    /\ amm = IdleAmm
    /\ cp = IdleCp
    /\ liq \in LiqCalls
    /\ rd = IdleRd
    /\ slip = IdleSlip
    /\ chg = IdleChg

NextLiq ==
    \/ LiqSlippage
    \/ LiqMaxAmounts

SpecLiq == InitLiq /\ [][NextLiq]_vars

-----------------------------------------------------------------------------
(* The reads of a quote against a chain that moves *)

InitRead ==
    /\ ClmmIdle
    /\ amm = IdleAmm
    /\ cp = IdleCp
    /\ liq = IdleLiq
    /\ rd \in [pc : {"reading"}, fn : QuoteFunctions, chain : {0}, seen : {<<>>}]
    /\ slip = IdleSlip
    /\ chg = IdleChg

NextRead ==
    \/ RdRead
    \/ ChainUpdate
    \/ RdQuote

SpecRead == InitRead /\ [][NextRead]_vars

-----------------------------------------------------------------------------
(* The CLMM swap-change quote *)

InitChg ==
    /\ ClmmIdle
    /\ amm = IdleAmm
    /\ cp = IdleCp
    /\ liq = IdleLiq
    /\ rd = IdleRd
    /\ slip = IdleSlip
    /\ chg \in ChgCalls

NextChg ==
    \/ ChgDirection
    \/ ChgSwapCompute
    \/ ChgThreshold

SpecChg == InitChg /\ [][NextChg]_vars

-----------------------------------------------------------------------------
(* The three swap quotes, each called with some input token account *)

InitSwapQuotes ==
    /\ ClmmIdle
    /\ liq = IdleLiq
    /\ rd = IdleRd
    /\ slip = IdleSlip
    /\ \/ amm \in AmmSwapCalls /\ cp = IdleCp /\ chg = IdleChg
       \/ amm = IdleAmm /\ cp \in CpSwapCalls /\ chg = IdleChg
       \/ amm = IdleAmm /\ cp = IdleCp /\ chg \in ChgCalls

NextSwapQuotes ==
    \/ AmmLoadAccounts
    \/ AmmSwapQuote
    \/ CpLoadAccounts
    \/ CpSwapQuote
    \/ ChgDirection
    \/ ChgSwapCompute
    \/ ChgThreshold

SpecSwapQuotes == InitSwapQuotes /\ [][NextSwapQuotes]_vars

-----------------------------------------------------------------------------
(* amount_with_slippage called twice on one amount, with two tolerances *)

SlipBps == {0, 1, 50, TEN_THOUSAND \div 2, TEN_THOUSAND, TEN_THOUSAND + 1, 2 * TEN_THOUSAND}

SlipAmounts == {0, 1, 3, 100, U64_MAX \div 2 + 1, U64_MAX}

\* common_utils.rs lines 28-46, with the first tolerance; a panic ends the process
SlippageFirst ==
    /\ slip.pc = "start"
    /\ LET r == amount_with_slippage(slip.amount, slip.s1, slip.up_towards)
       IN  slip' = [slip EXCEPT !.pc = IF r.kind = "panic" THEN "done" ELSE "first",
                                !.r1 = r]
    /\ UNCHANGED <<clmmVars, amm, cp, liq, rd, chg>>

\* common_utils.rs lines 28-46, with the second tolerance
SlippageSecond ==
    /\ slip.pc = "first"
    /\ slip' = [slip EXCEPT !.pc = "done",
                   !.r2 = amount_with_slippage(slip.amount, slip.s2, slip.up_towards)]
    /\ UNCHANGED <<clmmVars, amm, cp, liq, rd, chg>>

InitSlip ==
    /\ ClmmIdle
    /\ amm = IdleAmm
    /\ cp = IdleCp
    /\ liq = IdleLiq
    /\ rd = IdleRd
    /\ chg = IdleChg
    /\ slip \in [pc : {"start"}, amount : SlipAmounts, s1 : SlipBps, s2 : SlipBps,
                  up_towards : BOOLEAN, r1 : {NoResult}, r2 : {NoResult}]

NextSlip ==
    \/ SlippageFirst
    \/ SlippageSecond

SpecSlip == InitSlip /\ [][NextSlip]_vars

\* C15: for one amount and s1 <= s2 <= 10000 no call aborts, the amount widened
\* with s1 is at most the amount widened with s2 (and when the first does not
\* fit a u64 neither does the second), and the amount narrowed with s1 is at
\* least the amount narrowed with s2.
C15_SlippageMonotone ==
    (slip.pc = "done" /\ slip.s1 <= slip.s2 /\ slip.s2 <= TEN_THOUSAND) =>
        /\ slip.r1.kind \in {"Ok", "Err"}
        /\ slip.r2.kind \in {"Ok", "Err"}
        /\ slip.r1.kind = "Err" => slip.r2.kind = "Err"
        /\ ~slip.up_towards => slip.r2.kind = "Ok"
        /\ (slip.r1.kind = "Ok" /\ slip.r2.kind = "Ok") =>
               IF slip.up_towards THEN slip.r1.v <= slip.r2.v ELSE slip.r1.v >= slip.r2.v

\* both directions' thresholds moved apart by the greater tolerance
C15_Witness ==
    /\ slip.pc = "done"
    /\ slip.s1 < slip.s2
    /\ slip.s2 <= TEN_THOUSAND
    /\ slip.r1.kind = "Ok"
    /\ slip.r2.kind = "Ok"
    /\ slip.r1.v # slip.r2.v

\* C16: amount_with_slippage does not reject a slippage_bps above 10000: in
\* both directions the call completes and returns an amount.
C16_AboveTenThousandReturns ==
    (slip.pc \in {"first", "done"} /\ slip.s1 > TEN_THOUSAND) => slip.r1.kind = "Ok"

-----------------------------------------------------------------------------
(* Properties of swap_compute, under Spec *)

\* C1: the traversal loop body runs at most 10 swap steps in any call; a swap
\* that would need an 11th step fails instead of executing it.
C1_AtMostTenSteps == hist.steps <= LoopCap

\* C2: whenever swap_compute returns Ok, one of the loop's exit conditions holds
\* in the final state (nothing remains, the price is at the limit, or the tick
\* is at MIN_TICK or MAX_TICK) and the amount returned is the one accumulated:
\* a traversal cut short never returns Ok.
C2_OkMeansLoopExit ==
    (pc = "returned" /\ ret.kind = "Ok") =>
        /\ \/ state.amount_specified_remaining = 0
           \/ state.sqrt_price_x64 = loc.sqrt_price_limit_x64
           \/ state.tick >= MAX_TICK
           \/ state.tick <= MIN_TICK
        /\ ret.amount_calculated = state.amount_calculated

\* an Ok return after several steps, one of them into a second tick array
C2_Witness ==
    /\ pc = "returned"
    /\ ret.kind = "Ok"
    /\ hist.steps >= 2
    /\ Len(ret.vec) = 2
    /\ state.amount_specified_remaining = 0

\* the step at hand has to move on to another tick array
NeedsNextArray ==
    /\ pc = "loop"
    /\ LoopCondition
    /\ ~LoopCountExceeded
    /\ loc.tick_match_current_tick_array
    /\ next_initialized_tick(pool_state.layout, loc.tick_array_current, state.tick,
                             args.zero_for_one) = {}

\* C3: when the loop needs another tick array and the queue of pre-loaded
\* arrays is empty, the call ends with an error value returned to the caller,
\* not with a panic.
C3_EmptyQueueIsErr ==
    [][(NeedsNextArray /\ tick_arrays = <<>>) => (pc' = "returned" /\ ret'.kind = "Err")]_vars

\* C10: when swap_compute has returned, Ok or Err, the caller's queue of tick
\* arrays holds the same arrays in the same order as on entry.
C10_QueueUnchanged ==
    (pc = "returned" /\ ret.kind \in {"Ok", "Err"}) => tick_arrays = hist.entry_tick_arrays

\* C11: swap_compute enters the loop only with a price limit strictly between
\* the pool's current price and the bound of the direction; a limit equal to
\* the bound or to the current price is rejected before the loop.
C11_LimitStrictlyInside ==
    (pc = "loop" /\ args.sqrt_price_limit_x64 # 0) =>
        IF args.zero_for_one
        THEN MIN_SQRT_PRICE_X64 < args.sqrt_price_limit_x64
             /\ args.sqrt_price_limit_x64 < pool_state.sqrt_price_x64
        ELSE pool_state.sqrt_price_x64 < args.sqrt_price_limit_x64
             /\ args.sqrt_price_limit_x64 < MAX_SQRT_PRICE_X64

\* lines 432-436: the pool has a first initialized tick array for the direction,
\* so that the wrapper gets as far as calling swap_compute
SwapComputeCalled ==
    get_first_initialized_tick_array(pool_state.layout, pool_state.tick_current,
                                     args.zero_for_one)[1]

\* C12: swap_compute called with amount_specified = 0 returns an error before
\* the loop, whatever the pool, the direction and the limit: no step is
\* executed and no tick array is taken from the queue.
C12_ZeroAmountIsErr ==
    /\ pc = "loop" => args.amount_specified # 0
    /\ (pc = "returned" /\ args.amount_specified = 0 /\ SwapComputeCalled) =>
           /\ ret.kind = "Err"
           /\ ret.msg = "amountSpecified must not be 0"
           /\ hist.steps = 0
           /\ tick_arrays = hist.entry_tick_arrays

\* a zero amount refused although queue and limit would have let the swap run
C12_Witness ==
    /\ pc = "returned"
    /\ args.amount_specified = 0
    /\ ret.kind = "Err"
    /\ tick_arrays # <<>>
    /\ LimitError(EffectiveLimit(args.sqrt_price_limit_x64, args.zero_for_one),
                  args.zero_for_one, pool_state.sqrt_price_x64) = ""

\* C13: the list swap_compute returns on success starts with the start index
\* of the first initialized tick array of the direction, gets one more element
\* exactly when the traversal moves into an array (the arrays taken from the
\* queue are the listed ones, the last listed is the current one), and is
\* strictly decreasing for zero_for_one, strictly increasing otherwise.
C13_VisitedArraysInOrder ==
    /\ pc = "loop" =>
           /\ loc.tick_array_start_index_vec \o tick_arrays = hist.entry_tick_arrays
           /\ loc.tick_array_start_index_vec[Len(loc.tick_array_start_index_vec)]
                  = loc.tick_array_current
    /\ (pc = "returned" /\ ret.kind = "Ok") =>
           /\ Len(ret.vec) >= 1
           /\ ret.vec[1] = get_first_initialized_tick_array(
                               pool_state.layout, pool_state.tick_current,
                               args.zero_for_one)[3]
           /\ ret.vec \o tick_arrays = hist.entry_tick_arrays
           /\ \A i, j \in 1..Len(ret.vec) :
                  i < j => IF args.zero_for_one THEN ret.vec[i] > ret.vec[j]
                           ELSE ret.vec[i] < ret.vec[j]

\* a successful downward swap that moved into a second tick array
C13_Witness ==
    /\ pc = "returned"
    /\ ret.kind = "Ok"
    /\ args.zero_for_one
    /\ Len(ret.vec) = 2
    /\ ret.vec[2] < ret.vec[1]

-----------------------------------------------------------------------------
(* Properties of the AMM quotes, under SpecAmm *)

\* C6: in each of the three AMM quote paths the quote math runs on the reserves
\* pool_vault_deduct_pnl returned, never on the amounts before the deduction.
C6_PnlDeductedBeforeMath ==
    (amm.pc = "done" /\ amm.result.kind = "Ok") =>
        /\ amm.deducted
        /\ amm.reserves = <<amm.total[1] - amm.pnl_pc, amm.total[2] - amm.pnl_coin>>

C8_ExactOutputQuoteRoundsUp ==
    (amm.pc = "done" /\ amm.op = "swap" /\ ~amm.base_in /\ amm.result.kind = "Ok") =>
        LET reserve_in == IF amm.user_mint = "coin" THEN amm.reserves[2]
                          ELSE amm.reserves[1]
            reserve_out == IF amm.user_mint = "coin" THEN amm.reserves[1]
                           ELSE amm.reserves[2]
            before_fee == CeilDiv(reserve_in * amm.amount_specified,
                                  reserve_out - amm.amount_specified)
            with_fee == CeilDiv(before_fee * amm.swap_fee_denominator,
                                amm.swap_fee_denominator - amm.swap_fee_numerator)
        IN  amm.result.v = CeilDiv(with_fee * (TEN_THOUSAND + amm.slippage_bps),
                                   TEN_THOUSAND)

\* C14: for positive reserves an exact-input swap of amount_in that yields out
\* keeps (reserve_in + amount_in) * (reserve_out - out) >= reserve_in *
\* reserve_out, and the product grows strictly when a fee is taken.
C14_ConstantProduct ==
    (amm.pc = "done" /\ amm.op = "swap" /\ amm.base_in /\ amm.swap_direction # "none"
        /\ amm.reserves[1] > 0 /\ amm.reserves[2] > 0) =>
        LET out == swap_exact_amount(amm.reserves[1], amm.reserves[2],
                       amm.swap_fee_numerator, amm.swap_fee_denominator,
                       amm.swap_direction, amm.amount_specified, TRUE)
            fee == checked_ceil_div(amm.amount_specified * amm.swap_fee_numerator,
                                    amm.swap_fee_denominator)
            reserve_in == IF amm.swap_direction = "Coin2PC" THEN amm.reserves[2]
                          ELSE amm.reserves[1]
            reserve_out == IF amm.swap_direction = "Coin2PC" THEN amm.reserves[1]
                           ELSE amm.reserves[2]
            before == reserve_in * reserve_out
            after == (reserve_in + amm.amount_specified) * (reserve_out - out.v)
        IN  out.kind = "Ok" => /\ after >= before
                               /\ fee > 0 => after > before
                               /\ amm.result.kind = "Ok" => amm.result.v <= out.v

\* a fee-free exact-input swap that pays out, rounding in the pool's favour
C14_Witness ==
    /\ amm.pc = "done"
    /\ amm.op = "swap"
    /\ amm.base_in
    /\ amm.swap_fee_numerator = 0
    /\ amm.result.kind = "Ok"
    /\ amm.slippage_bps = 0
    /\ amm.result.v > 0
    /\ (amm.reserves[1] + amm.amount_specified) * (amm.reserves[2] - amm.result.v)
           > amm.reserves[1] * amm.reserves[2]

-----------------------------------------------------------------------------
(* Properties of the liquidity quotes and of the reads *)

\* C17: swap_calculate feeds the curve amount_specified less the input mint's
\* transfer fee on it for exact input; for exact output the transfer-in before
\* slippage is the source amount the curve asks for plus the input mint's inverse
\* transfer fee on that amount.
C17_TransferFeesAroundCurve ==
    (cp.pc = "done" /\ cp.op = "swap" /\ cp.result.kind = "Ok") =>
        LET input_mint == IF cp.user_mint = "token0" THEN cp.mint0 ELSE cp.mint1
        IN  IF cp.base_in
            THEN cp.result.curve_amount = cp.amount_specified
                    - get_transfer_fee(input_mint, cp.epoch, cp.amount_specified)
            ELSE /\ cp.result.transfer_amount = cp.result.swapped
                       + get_transfer_inverse_fee(input_mint, cp.epoch, cp.result.swapped)
                 /\ cp.result.v = (cp.result.transfer_amount
                                     * (TEN_THOUSAND + cp.slippage_bps)) \div TEN_THOUSAND

\* an exact-output quote whose input mint charges a transfer fee
C17_Witness ==
    /\ cp.pc = "done"
    /\ cp.op = "swap"
    /\ cp.result.kind = "Ok"
    /\ ~cp.base_in
    /\ cp.result.transfer_amount > cp.result.swapped
    /\ cp.result.swapped > 0

\* C4: each maximum amount calculate_liquidity_change returns is the amount with
\* slippage plus that mint's inverse transfer fee, taken at the current epoch
\* for the amount with slippage as the post-fee amount.
C4_MaxAmountAddsInverseFee ==
    (liq.pc = "done" /\ liq.kind = "Ok") =>
        /\ liq.amount_0_max = liq.amount_0_with_slippage
              + get_transfer_inverse_fee(liq.mint0, liq.epoch, liq.amount_0_with_slippage)
        /\ liq.amount_1_max = liq.amount_1_with_slippage
              + get_transfer_inverse_fee(liq.mint1, liq.epoch, liq.amount_1_with_slippage)

\* C5: every value a CLMM or CP-Swap quote computes from was read from one and
\* the same chain state.
C5_OneChainState ==
    rd.pc = "done" => \A i, j \in DOMAIN rd.seen : rd.seen[i] = rd.seen[j]

\* C9: when the LP amount specified_tokens_to_lp_tokens computes is beyond the
\* u64 range, add_liquidity_calculate fails; it returns no result built from
\* the amount modulo 2^64.
C9_NoSilentTruncation ==
    (cp.pc = "done" /\ cp.op = "add" /\ cp.result.liquidity > U64_MAX) =>
        cp.result.kind # "Ok"


\* C18: for exact output calculate_swap_change first adds the input mint's
\* inverse transfer fee to the computed input and then widens by the slippage,
\* as the CP-Swap quote does: threshold = slippage_up(in + inverse_fee(in)).
C18_FeeThenSlippage ==
    (chg.pc = "done" /\ chg.result.kind = "Ok" /\ ~chg.base_in) =>
        LET input_mint == IF chg.zero_for_one THEN chg.mint0 ELSE chg.mint1
            with_fee == chg.computed
                          + get_transfer_inverse_fee(input_mint, chg.epoch, chg.computed)
        IN  chg.result.v = (with_fee * (TEN_THOUSAND + chg.slippage_bps)) \div TEN_THOUSAND


\* C19: when the mint of the user's input token is neither of the pool's mints,
\* calculate_swap_info, swap_calculate and calculate_swap_change end with an
\* error value returned to the caller: no abort and no quote.
C19_MismatchedMintIsErr ==
    /\ (amm.pc = "done" /\ amm.op = "swap" /\ amm.user_mint = "other") =>
           amm.result.kind = "Err"
    /\ (cp.pc = "done" /\ cp.op = "swap" /\ cp.user_mint = "other") =>
           cp.result.kind = "Err"
    /\ (chg.pc = "done" /\ chg.user_mint = "other") => chg.result.kind = "Err"


\* C20: specified_tokens_to_lp_tokens returns min(amount0 * lp_supply / reserve0,
\* amount1 * lp_supply / reserve1), divisions rounding down, the specified side's
\* amount being amount_specified and the other side's floor(amount_specified *
\* other_reserve / specified_reserve); so it is at most floor(amount_specified *
\* lp_supply / specified_reserve).
C20_LpTokensAreTheMinimum ==
    (cp.pc = "done" /\ cp.op = "add" /\ cp.total[1] > 0 /\ cp.total[2] > 0
        /\ (cp.result.kind = "Ok" \/ cp.result.liquidity > 0)) =>
        LET amount_specified ==
                cp.amount_specified
                  - get_transfer_fee(IF cp.base_token0 THEN cp.mint0 ELSE cp.mint1,
                                     cp.epoch, cp.amount_specified)
            specified_reserve == IF cp.base_token0 THEN cp.total[1] ELSE cp.total[2]
            other_reserve == IF cp.base_token0 THEN cp.total[2] ELSE cp.total[1]
            other == (amount_specified * other_reserve) \div specified_reserve
            lp_0 == ((IF cp.base_token0 THEN amount_specified ELSE other) * cp.lp_supply)
                        \div cp.total[1]
            lp_1 == ((IF cp.base_token0 THEN other ELSE amount_specified) * cp.lp_supply)
                        \div cp.total[2]
        IN  /\ cp.result.liquidity <= lp_0
            /\ cp.result.liquidity <= lp_1
            /\ cp.result.liquidity \in {lp_0, lp_1}
            /\ cp.result.liquidity
                   <= (amount_specified * cp.lp_supply) \div specified_reserve

\* a deposit whose two LP figures differ, the counterpart amount having rounded
C20_Witness ==
    /\ cp.pc = "done"
    /\ cp.op = "add"
    /\ cp.base_token0
    /\ cp.result.kind = "Ok"
    /\ cp.result.liquidity > 0
    /\ cp.total[1] > 0
    /\ cp.result.liquidity
          < ((cp.amount_specified
                - get_transfer_fee(cp.mint0, cp.epoch, cp.amount_specified))
             * cp.lp_supply) \div cp.total[1]


\* C21: a CP-Swap quote over a pool with a zero reserve, or whose computed LP
\* amount is zero, ends with the ZeroTradingTokens error value: it neither
\* aborts nor returns a quote (whose LP amount would be 0).
C21_ZeroTradingTokensIsErr ==
    /\ (cp.pc = "done" /\ cp.op = "add"
          /\ (cp.vault[1] = cp.fees[1] \/ cp.vault[2] = cp.fees[2]
                \/ cp.result.liquidity = 0)) =>
           cp.result.kind = "Err"
    /\ (cp.pc = "done" /\ cp.op = "swap" /\ cp.user_mint # "other"
          /\ (cp.vault[1] = cp.fees[1] \/ cp.vault[2] = cp.fees[2])) =>
           cp.result.kind = "Err"


C23_WithdrawQuote ==
    (amm.pc = "done" /\ amm.op = "withdraw" /\ amm.result.kind = "Ok") =>
        IF amm.slippage_opt = {} THEN amm.result.v = <<-1, -1>>
        ELSE \A slippage_bps \in amm.slippage_opt :
               LET coin_share == (amm.reserves[2] * amm.amount_specified) \div amm.lp_amount
                   pc_share == (amm.reserves[1] * amm.amount_specified) \div amm.lp_amount
               IN  /\ amm.lp_amount > 0
                   /\ amm.result.v[1]
                        = (coin_share * (TEN_THOUSAND - slippage_bps)) \div TEN_THOUSAND
                   /\ amm.result.v[2]
                        = (pc_share * (TEN_THOUSAND - slippage_bps)) \div TEN_THOUSAND
                   /\ amm.result.v[1] <= coin_share
                   /\ amm.result.v[2] <= pc_share

\* a withdrawal from unequal reserves whose coin share rounds down and whose
\* minimum lies below the share
C23_Witness ==
    /\ amm.pc = "done"
    /\ amm.op = "withdraw"
    /\ amm.result.kind = "Ok"
    /\ amm.slippage_opt # {}
    /\ amm.lp_amount > 0
    /\ (amm.reserves[2] * amm.amount_specified) % amm.lp_amount # 0
    /\ amm.result.v[1] > 0
    /\ amm.result.v[1] < (amm.reserves[2] * amm.amount_specified) \div amm.lp_amount
    /\ amm.result.v[1] < amm.result.v[2]


\* C24: get_transfer_inverse_fee is the maximum_fee of the fee in force at the
\* epoch whenever that fee's basis points are 10000, for every post-fee amount,
\* 0 included. Seen in the add-liquidity quote, whose other side is the curve's
\* amount plus the inverse fee of the other mint.
C24_MaxBpsInverseFeeIsMaximumFee ==
    (cp.pc = "done" /\ cp.op = "add" /\ cp.result.kind = "Ok") =>
        LET other_mint == IF cp.base_token0 THEN cp.mint1 ELSE cp.mint0
            other_total == IF cp.base_token0 THEN cp.total[2] ELSE cp.total[1]
            fee == IF cp.epoch >= other_mint.newer.epoch THEN other_mint.newer
                   ELSE other_mint.older
            from_curve == lp_tokens_to_trading_token(cp.result.liquidity, cp.lp_supply,
                                                     other_total, TRUE)
        IN  (other_mint.has_fee /\ fee.basis_points = 10000) =>
                cp.result.v[IF cp.base_token0 THEN 3 ELSE 2] = from_curve + fee.maximum_fee

\* the fee at the maximal basis points charged on a post-fee amount of 0
C24_Witness ==
    /\ cp.pc = "done"
    /\ cp.op = "add"
    /\ cp.result.kind = "Ok"
    /\ cp.base_token0
    /\ cp.mint1 = MaxBpsMint
    /\ cp.epoch >= FeeChangeEpoch
    /\ cp.result.liquidity = 0
    /\ cp.result.v[3] = MaxBpsMint.newer.maximum_fee


\* C25: at every tick-array crossing of swap_compute the next array is checked
\* against the next initialized array after the one being left; so with the
\* loader's queue of consecutive initialized arrays a swap never ends with
\* "tick array start tick index does not match", however many arrays it crosses.
C25_CrossingsMatchLoadedArrays ==
    (pc = "returned" /\ hist.calls = 1
        /\ hist.entry_tick_arrays
             = load_cur_and_next_five_tick_array(pool_state.layout, pool_state.tick_current,
                                                 args.zero_for_one)) =>
        ret.msg # "tick array start tick index does not match"


\* C26: a step of swap_compute that ends exactly on the next tick's price sets
\* the current tick to tick_next - 1 when zero_for_one and to tick_next
\* otherwise, and changes the liquidity by that tick's liquidity_net (negated
\* when zero_for_one) exactly when the tick is initialized; a step that ends
\* short of that price leaves the liquidity alone.
C26_TickTransition ==
    [][(pc = "loop" /\ pc' = "loop") =>
          LET tick_next == ClampTick(NextTick.tick)
              net == IF Initialized(pool_state.layout, tick_next)
                     THEN liquidity_net(pool_state.layout, tick_next) ELSE 0
          IN  IF state'.sqrt_price_x64 = get_sqrt_price_at_tick(tick_next)
              THEN /\ state'.tick = IF args.zero_for_one THEN tick_next - 1 ELSE tick_next
                   /\ state'.liquidity
                        = state.liquidity + (IF args.zero_for_one THEN -net ELSE net)
              ELSE state'.liquidity = state.liquidity]_vars

\* a swap downwards has just crossed an initialized tick and lost its liquidity
C26_Witness ==
    /\ pc = "loop"
    /\ hist.steps >= 1
    /\ args.zero_for_one
    /\ Initialized(pool_state.layout, state.tick + 1)
    /\ state.sqrt_price_x64 = get_sqrt_price_at_tick(state.tick + 1)
    /\ state.liquidity < pool_state.liquidity


\* C27: swap_compute never moves the price past the limit and never against the
\* swap direction: after every step sqrt_price >= limit and sqrt_price does not
\* rise when zero_for_one, sqrt_price <= limit and sqrt_price does not fall
\* otherwise.
C27_PriceWithinLimit ==
    [][(pc' = "loop") =>
          IF args.zero_for_one
          THEN /\ state'.sqrt_price_x64 >= loc'.sqrt_price_limit_x64
               /\ (pc = "loop" => state'.sqrt_price_x64 <= state.sqrt_price_x64)
          ELSE /\ state'.sqrt_price_x64 <= loc'.sqrt_price_limit_x64
               /\ (pc = "loop" => state'.sqrt_price_x64 >= state.sqrt_price_x64)]_vars

\* a swap stopped by a limit that lies between two ticks' prices, after it has
\* crossed at least one tick
C27_Witness ==
    /\ pc = "loop"
    /\ hist.steps >= 2
    /\ args.sqrt_price_limit_x64 # 0
    /\ state.sqrt_price_x64 = loc.sqrt_price_limit_x64
    /\ get_sqrt_price_at_tick(get_tick_at_sqrt_price(loc.sqrt_price_limit_x64))
         # loc.sqrt_price_limit_x64
    /\ state.amount_specified_remaining > 0


\* C28: every call of swap_compute ends, with Ok, an error or an abort, and its
\* loop runs a bounded number of iterations: at most LoopCap + 1.
C28_SwapComputeTerminates ==
    /\ [](pc = "call" => <>(pc = "returned"))
    /\ [](hist.steps <= LoopCap + 1)

\* a call that has ended after the loop ran as often as the cap lets it
C28_Witness ==
    /\ pc = "returned"
    /\ hist.steps = LoopCap + 1
    /\ ret.msg = "loop_count limit"


\* C29: load_cur_and_next_five_tick_array returns 1 to 6 tick arrays: the first
\* initialized array for the swap direction, then at most five more, each the
\* nearest initialized array beyond the one before it in the swap direction;
\* it holds fewer than 6 only when no initialized array lies beyond its last.
C29_LoadedArrays ==
    LET zfo == args.zero_for_one
        f == get_first_initialized_tick_array(pool_state.layout, pool_state.tick_current, zfo)
        q == load_cur_and_next_five_tick_array(pool_state.layout, pool_state.tick_current, zfo)
        Beyond(a, b) == IF zfo THEN b < a ELSE b > a
        Loaded(s) == s \in ArrayStarts /\ ArrayInitialized(pool_state.layout, s)
    IN  (pc # "idle" /\ f[1]) =>
            /\ Len(q) \in 1..(NextArrays + 1)
            /\ q[1] = f[3]
            /\ \A i \in 1..(Len(q) - 1) :
                  /\ Loaded(q[i + 1])
                  /\ Beyond(q[i], q[i + 1])
                  /\ ~\E s \in ArrayStarts :
                         Loaded(s) /\ Beyond(q[i], s) /\ Beyond(s, q[i + 1])
            /\ (Len(q) <= NextArrays =>
                   ~\E s \in ArrayStarts : Loaded(s) /\ Beyond(q[Len(q)], s))

\* a call that was handed six loaded arrays while the pool has a seventh
\* initialized array further on
C29_Witness ==
    /\ pc = "returned"
    /\ Len(hist.entry_tick_arrays) = NextArrays + 1
    /\ hist.entry_tick_arrays
         = load_cur_and_next_five_tick_array(pool_state.layout, pool_state.tick_current,
                                             args.zero_for_one)
    /\ next_initialized_tick_array_start_index(pool_state.layout,
           hist.entry_tick_arrays[NextArrays + 1], args.zero_for_one) # {}


\* C30: after any number of steps of swap_compute, for exact input
\* amount_specified_remaining = amount_specified - sum(amount_in + fee_amount)
\* and amount_calculated = sum(amount_out); for exact output
\* amount_specified_remaining = amount_specified - sum(amount_out) and
\* amount_calculated = sum(amount_in + fee_amount). So the first never exceeds
\* amount_specified, and neither has wrapped around.
C30_AmountAccounting ==
    (pc = "account") =>
        IF args.is_base_input
        THEN /\ state.amount_specified_remaining
                  = args.amount_specified - (hist.amount_in + hist.fee_amount)
             /\ state.amount_calculated = hist.amount_out
        ELSE /\ state.amount_specified_remaining = args.amount_specified - hist.amount_out
             /\ state.amount_calculated = hist.amount_in + hist.fee_amount

=============================================================================
